---- MODULE Spec2Model ----
(***************************************************************************)
(* A model of TTRPGtools: the character ledger (ttrpgtools/models.py), its *)
(* JSON boundary (ttrpgtools/storage.py) and the whole-book section        *)
(* auto-discovery (ttrpgtools/book_import.py over ttrpgtools/parsers.py).  *)
(*                                                                         *)
(* Strings the code inspects character by character are modelled so that   *)
(* the inspections stay computations:                                      *)
(*   - an advance or career name is a record [base, cs]: the spelling and  *)
(*     the letter case it is written in; str.lower() rewrites cs;          *)
(*   - a line of a book is a sequence of words, and a property of a word   *)
(*     (is it a number, does it start with "table", ...) is membership in  *)
(*     the set of the model's words that have the property.                *)
(* An optional value (None or v) is <<>> or <<v>>.                         *)
(***************************************************************************)
EXTENDS Integers, Sequences, FiniteSets, TLC

VARIABLES
    phase,      \* ledger: "declared" | "ready" | "crashed"
    decl,       \* ledger: the career declaration the run was given
    career,     \* ledger: the Career built from decl (<<>> before it is built)
    xp_total,   \* Character.xp_total
    purchases,  \* Character.purchases
    last,       \* the last purchase_advance call and its outcome
    registry,   \* models.CAREERS: the registered careers by lowered name
    payload,    \* storage: the argument of character_from_dict (<<>> before the call)
    loaded,     \* storage: what character_from_dict returned or raised
    lines,      \* book: the lines of the text given to auto_parse_book
    idx,        \* book: the scan index of auto_parse_book (0-based, as in the code)
    collected,  \* book: the entries collected so far
    windows,    \* book: the windows accepted so far, [detector, start, end)
    calls,      \* book: the _try_parse_window calls made so far and their outcomes
    pc,         \* book: "idle" | "scan" | "returned" | "raised"
    error,      \* book: the exception auto_parse_book raised ("None" if none)
    invoked,    \* calls: the call made, <<>> before it
    returned,   \* calls: what the call returned or raised, <<>> before it
    files,      \* calls: the files on disk, path |-> content (no key: no file)
    history    \* calls: the files at first and the batches given to append_entries since

ledgerVars == <<phase, decl, career, xp_total, purchases, last>>
storageVars == <<registry, payload, loaded>>
bookVars == <<lines, idx, collected, windows, calls, pc, error>>
callVars == <<invoked, returned, files, history>>
vars ==
    <<phase, decl, career, xp_total, purchases, last, registry, payload, loaded,
      lines, idx, collected, windows, calls, pc, error,
      invoked, returned, files, history>>

(***************************************************************************)
(* Bounds                                                                  *)
(***************************************************************************)
\* xp_total ranges over 0, 50, ..., 50 * MaxXpSteps
MaxXpSteps == 12
\* a payload of character_from_dict lists at most MaxPayload purchases
MaxPayload == 3

(***************************************************************************)
(* Names and str.lower()                                                   *)
(***************************************************************************)
Cases == {"title", "lower", "upper"}

Title(base) == [base |-> base, cs |-> "title"]

\* str.lower(): the same spelling, every letter in lower case
lower(n) == [n EXCEPT !.cs = "lower"]

NoException == [exc |-> "None", names |-> <<>>]

Raise(exc, names) == [exc |-> exc, names |-> names]

(***************************************************************************)
(* models.py: Advance, Career                                              *)
(***************************************************************************)
\* the fields of the Advance dataclass; its generated __init__ accepts no other keyword
AdvanceFields == {"name", "xp_cost", "page", "prerequisites"}

\* Advance(**kw): TypeError on an unexpected keyword, prerequisites defaults to ()
Advance(kw) ==
    IF DOMAIN kw \subseteq AdvanceFields
    THEN [exc |-> "None",
          val |-> [name |-> kw.name, xp_cost |-> kw.xp_cost, page |-> kw.page,
                   prerequisites |-> IF "prerequisites" \in DOMAIN kw
                                     THEN kw.prerequisites ELSE <<>>]]
    ELSE [exc |-> "TypeError", val |-> <<>>]

\* the mutant of missing_prerequisites: owning any one prerequisite is enough
missing_prerequisites_any(advance, owned_advances) ==
    LET owned_set == {lower(owned_advances[i]) : i \in DOMAIN owned_advances}
    IN  IF \E k \in DOMAIN advance.prerequisites : lower(advance.prerequisites[k]) \in owned_set
        THEN <<>>
        ELSE advance.prerequisites

\* Advance.missing_prerequisites: the prerequisites not owned, compared in lower case
missing_prerequisites(advance, owned_advances) ==
    LET owned_set == {lower(owned_advances[i]) : i \in DOMAIN owned_advances}
    IN  SelectSeq(advance.prerequisites, LAMBDA name : lower(name) \notin owned_set)

\* Career.from_advances: a dict keyed by the lowered name, a later advance replacing an earlier
from_advances(name, advances) ==
    [name |-> name,
     advances |->
        [k \in {lower(advances[i].name) : i \in DOMAIN advances} |->
            LET hits == {i \in DOMAIN advances : lower(advances[i].name) = k}
            IN  advances[CHOOSE i \in hits : \A j \in hits : j <= i]]]

\* Career.get_advance: the advance under the lowered name, or KeyError
get_advance(c, advance_name) ==
    IF lower(advance_name) \in DOMAIN c.advances
    THEN [exc |-> "None", names |-> <<>>, val |-> c.advances[lower(advance_name)]]
    ELSE [exc |-> "KeyError", names |-> <<advance_name>>, val |-> <<>>]

(***************************************************************************)
(* models.py: Character                                                    *)
(***************************************************************************)
PurchaseNames(ps) == [i \in DOMAIN ps |-> ps[i].name]

\* Character.has_advance
has_advance(ps, advance_name) ==
    \E i \in DOMAIN ps : lower(ps[i].name) = lower(advance_name)

RECURSIVE SumCost(_)
SumCost(ps) == IF ps = <<>> THEN 0 ELSE ps[1].xp_cost + SumCost(Tail(ps))

\* Character.xp_spent
xp_spent(ps) == SumCost(ps)

\* Character.xp_available
xp_available(total, ps) == total - xp_spent(ps)

\* the mutant of _validate_purchase: the XP check is dropped
validate_purchase_no_xp(total, ps, advance) ==
    IF has_advance(ps, advance.name)
    THEN Raise("PrerequisiteError", <<advance.name>>)
    ELSE IF missing_prerequisites(advance, PurchaseNames(ps)) # <<>>
    THEN Raise("PrerequisiteError", missing_prerequisites(advance, PurchaseNames(ps)))
    ELSE NoException

\* the mutant of _validate_purchase: the already-purchased check is dropped
validate_purchase_no_dup(total, ps, advance) ==
    IF missing_prerequisites(advance, PurchaseNames(ps)) # <<>>
    THEN Raise("PrerequisiteError", missing_prerequisites(advance, PurchaseNames(ps)))
    ELSE IF advance.xp_cost > xp_available(total, ps)
    THEN Raise("PrerequisiteError", <<>>)
    ELSE NoException

\* Character._validate_purchase: already purchased, missing prerequisites, not enough XP
_validate_purchase(total, ps, advance) ==
    IF has_advance(ps, advance.name)
    THEN Raise("PrerequisiteError", <<advance.name>>)
    ELSE IF missing_prerequisites(advance, PurchaseNames(ps)) # <<>>
    THEN Raise("PrerequisiteError", missing_prerequisites(advance, PurchaseNames(ps)))
    ELSE IF advance.xp_cost > xp_available(total, ps)
    THEN Raise("PrerequisiteError", <<>>)
    ELSE NoException

\* Character.purchase_advance: the exception raised (or None) and the purchase list after
purchase_advance(c, total, ps, advance_name, page_override) ==
    LET got == get_advance(c, advance_name)
    IN  IF got.exc # "None"
        THEN [exc |-> got.exc, names |-> got.names, purchases |-> ps]
        ELSE LET advance == got.val
                 checked == _validate_purchase(total, ps, advance)
                 recorded_page == IF page_override # <<>> THEN page_override[1]
                                  ELSE advance.page
             IN  IF checked.exc # "None"
                 THEN [exc |-> checked.exc, names |-> checked.names, purchases |-> ps]
                 ELSE [exc |-> "None", names |-> <<>>,
                       purchases |-> Append(ps, [name |-> advance.name,
                                                 xp_cost |-> advance.xp_cost,
                                                 page |-> recorded_page])]

(***************************************************************************)
(* Career declarations: the built-in careers of models.py, the career of   *)
(* tests/test_models.py, and one whose prerequisites are written in other  *)
(* letter cases than the advances they name                                *)
(***************************************************************************)
SoldierDecl ==
    [name |-> Title("Soldier"),
     advances |-> <<
        [name |-> Title("Basic Training"), xp_cost |-> 100, page |-> 45],
        [name |-> Title("Shield Wall"), xp_cost |-> 150, page |-> 47,
         prerequisites |-> <<Title("Basic Training")>>],
        [name |-> Title("Battlefield Commander"), xp_cost |-> 300, page |-> 52,
         prerequisites |-> <<Title("Shield Wall")>>] >>]

AcolyteDecl ==
    [name |-> Title("Acolyte"),
     advances |-> <<
        [name |-> Title("Initiate's Blessing"), xp_cost |-> 100, page |-> 78],
        [name |-> Title("Sacred Ward"), xp_cost |-> 200, page |-> 82,
         prerequisites |-> <<Title("Initiate's Blessing")>>],
        [name |-> Title("Miracle Worker"), xp_cost |-> 400, page |-> 90,
         prerequisites |-> <<Title("Sacred Ward")>>] >>]

\* test_repeatable_advance_respects_purchase_limit
GuardsmanDecl ==
    [name |-> Title("Guardsman"),
     advances |-> <<
        [name |-> Title("Sound Constitution"), xp_cost |-> 100, page |-> 120,
         max_purchases |-> 2] >>]

ScoutDecl ==
    [name |-> Title("Scout"),
     advances |-> <<
        [name |-> Title("Tracking"), xp_cost |-> 100, page |-> 10],
        [name |-> Title("Ambush"), xp_cost |-> 50, page |-> 12,
         prerequisites |-> <<[base |-> "Tracking", cs |-> "upper"]>>],
        [name |-> Title("Stalker"), xp_cost |-> 200, page |-> 14,
         prerequisites |-> <<[base |-> "Ambush", cs |-> "lower"],
                             [base |-> "Tracking", cs |-> "lower"]>>] >>]

CareerDecls == {SoldierDecl, GuardsmanDecl, ScoutDecl}

XpTotals == {50 * k : k \in 0 .. MaxXpSteps}

\* the names a caller may ask for: every advance of the career in every letter case, and a stranger
AskNames(d) ==
    {[base |-> b, cs |-> c] :
        b \in {d.advances[i].name.base : i \in DOMAIN d.advances} \cup {"Nonexistent"},
        c \in Cases}

PageOverrides == {<<>>, <<7>>}

NoCall == [name |-> <<>>, pre |-> <<>>, total |-> 0, exc |-> "None", names |-> <<>>]

(***************************************************************************)
(* The ledger as a state machine                                           *)
(***************************************************************************)
InitLedger ==
    /\ phase = "declared"
    /\ decl \in CareerDecls
    /\ career = <<>>
    /\ xp_total \in XpTotals
    /\ purchases = <<>>
    /\ last = NoCall
    /\ registry = <<>>
    /\ payload = <<>>
    /\ loaded = <<>>
    /\ lines = <<>>
    /\ idx = 0
    /\ collected = <<>>
    /\ windows = <<>>
    /\ calls = <<>>
    /\ pc = "idle"
    /\ error = "None"
    /\ invoked = <<>>
    /\ returned = <<>>
    /\ files = <<>>
    /\ history = <<>>

\* the advances are constructed, then Career.from_advances and Character(...)
MakeCareer ==
    /\ phase = "declared"
    /\ LET made == [i \in DOMAIN decl.advances |-> Advance(decl.advances[i])]
       IN  IF \E i \in DOMAIN made : made[i].exc # "None"
           THEN /\ phase' = "crashed"
                /\ career' = career
           ELSE /\ phase' = "ready"
                /\ career' = from_advances(decl.name,
                                           [i \in DOMAIN made |-> made[i].val])
    /\ UNCHANGED <<decl, xp_total, purchases, last>>
    /\ UNCHANGED <<storageVars, bookVars, callVars>>

Purchase(advance_name, page_override) ==
    /\ phase = "ready"
    /\ LET r == purchase_advance(career, xp_total, purchases, advance_name, page_override)
       IN  /\ purchases' = r.purchases
           /\ last' = [name |-> <<advance_name>>, pre |-> purchases, total |-> xp_total,
                       exc |-> r.exc, names |-> r.names]
    /\ UNCHANGED <<phase, decl, career, xp_total>>
    /\ UNCHANGED <<storageVars, bookVars, callVars>>

NextLedger ==
    \/ MakeCareer
    \/ \E n \in AskNames(decl), p \in PageOverrides : Purchase(n, p)

Spec == InitLedger /\ [][NextLedger]_vars

(***************************************************************************)
(* models.py: the career registry; storage.py: character_from_dict         *)
(***************************************************************************)
\* the advances of a declaration, constructed (the built-in declarations use no unknown keyword)
BuiltCareer(d) ==
    from_advances(d.name, [i \in DOMAIN d.advances |-> Advance(d.advances[i]).val])

\* register_career: CAREERS[career.name.lower()] = career
register_career(reg, c) ==
    [k \in DOMAIN reg \cup {lower(c.name)} |->
        IF k = lower(c.name) THEN c ELSE reg[k]]

\* CAREERS once models.py is imported: Soldier and Acolyte
CAREERS ==
    register_career(register_career(<<>>, BuiltCareer(SoldierDecl)),
                    BuiltCareer(AcolyteDecl))

\* get_career: the career under the lowered name, or KeyError
get_career(reg, name) ==
    IF lower(name) \in DOMAIN reg
    THEN [exc |-> "None", names |-> <<>>, val |-> reg[lower(name)]]
    ELSE [exc |-> "KeyError", names |-> <<name>>, val |-> <<>>]

\* the loop of character_from_dict recording the cost stored in the record in
\* place of the cost of the career's advance
RECURSIVE load_purchases_stored_cost(_, _, _, _)
load_purchases_stored_cost(c, data, i, ps) ==
    IF i > Len(data)
    THEN [exc |-> "None", names |-> <<>>, purchases |-> ps]
    ELSE IF data[i].page = <<>>
    THEN [exc |-> "TypeError", names |-> <<>>, purchases |-> ps]
    ELSE LET got == get_advance(c, data[i].name)
         IN  IF got.exc # "None"
             THEN [exc |-> got.exc, names |-> got.names, purchases |-> ps]
             ELSE LET advance == got.val
                      missing == missing_prerequisites(advance, PurchaseNames(ps))
                  IN  IF missing # <<>>
                      THEN [exc |-> "ValueError", names |-> <<advance.name>> \o missing,
                            purchases |-> ps]
                      ELSE load_purchases_stored_cost(c, data, i + 1,
                               Append(ps, [name |-> advance.name,
                                           xp_cost |-> data[i].xp_cost,
                                           page |-> data[i].page[1]]))

\* the loop of character_from_dict recording the page of the career's advance
\* in place of the page of the record
RECURSIVE load_purchases_career_page(_, _, _, _)
load_purchases_career_page(c, data, i, ps) ==
    IF i > Len(data)
    THEN [exc |-> "None", names |-> <<>>, purchases |-> ps]
    ELSE IF data[i].page = <<>>
    THEN [exc |-> "TypeError", names |-> <<>>, purchases |-> ps]
    ELSE LET got == get_advance(c, data[i].name)
         IN  IF got.exc # "None"
             THEN [exc |-> got.exc, names |-> got.names, purchases |-> ps]
             ELSE LET advance == got.val
                      missing == missing_prerequisites(advance, PurchaseNames(ps))
                  IN  IF missing # <<>>
                      THEN [exc |-> "ValueError", names |-> <<advance.name>> \o missing,
                            purchases |-> ps]
                      ELSE load_purchases_career_page(c, data, i + 1,
                               Append(ps, [name |-> advance.name,
                                           xp_cost |-> advance.xp_cost,
                                           page |-> advance.page]))

\* the loop of character_from_dict over payload["purchases"], from record i on:
\* int(page), get_advance, missing_prerequisites, append
RECURSIVE load_purchases(_, _, _, _)
load_purchases(c, data, i, ps) ==
    IF i > Len(data)
    THEN [exc |-> "None", names |-> <<>>, purchases |-> ps]
    ELSE IF data[i].page = <<>>
    THEN [exc |-> "TypeError", names |-> <<>>, purchases |-> ps]
    ELSE LET got == get_advance(c, data[i].name)
         IN  IF got.exc # "None"
             THEN [exc |-> got.exc, names |-> got.names, purchases |-> ps]
             ELSE LET advance == got.val
                      missing == missing_prerequisites(advance, PurchaseNames(ps))
                  IN  IF missing # <<>>
                      THEN [exc |-> "ValueError", names |-> <<advance.name>> \o missing,
                            purchases |-> ps]
                      ELSE load_purchases(c, data, i + 1,
                               Append(ps, [name |-> advance.name,
                                           xp_cost |-> advance.xp_cost,
                                           page |-> data[i].page[1]]))

\* character_from_dict: the exception raised (with the names its message carries), or the character
character_from_dict(reg, p) ==
    LET found == get_career(reg, p.career)
    IN  IF found.exc # "None"
        THEN [exc |-> found.exc, names |-> found.names, character |-> <<>>]
        ELSE LET total == IF p.xp_total = <<>> THEN 0 ELSE p.xp_total[1]
                 r == load_purchases(found.val, p.purchases, 1, <<>>)
             IN  IF r.exc # "None"
                 THEN [exc |-> r.exc, names |-> r.names, character |-> <<>>]
                 ELSE IF xp_spent(r.purchases) > total
                 THEN [exc |-> "ValueError", names |-> <<>>, character |-> <<>>]
                 ELSE [exc |-> "None", names |-> <<>>,
                       character |-> [name |-> p.name, career |-> found.val.name,
                                      xp_total |-> total, purchases |-> r.purchases]]

(***************************************************************************)
(* Payloads: purchase records naming Soldier advances (one in lower case), *)
(* a stranger, with a stored cost that is or is not the career's, and a    *)
(* record without a page                                                   *)
(***************************************************************************)
PayloadNames ==
    {Title("Basic Training"), lower(Title("Basic Training")), Title("Shield Wall"),
     Title("Battlefield Commander"), Title("Nonexistent")}

PayloadRecords ==
    [name : PayloadNames, xp_cost : {100, 5}, page : {<<45>>}]
        \cup {[name |-> Title("Basic Training"), xp_cost |-> 100, page |-> <<>>]}

RECURSIVE SeqsUpTo(_, _)
SeqsUpTo(S, n) ==
    IF n = 0 THEN {<<>>}
    ELSE LET shorter == SeqsUpTo(S, n - 1)
         IN  shorter \cup {Append(q, x) : q \in {t \in shorter : Len(t) = n - 1}, x \in S}

Payloads ==
    [name : {"Rook"},
     career : {Title("Soldier"), lower(Title("Soldier")), Title("Nobody")},
     xp_total : {<<>>, <<200>>, <<600>>},
     purchases : SeqsUpTo(PayloadRecords, MaxPayload)]

(***************************************************************************)
(* Deserialization as a state machine: one call per run                    *)
(***************************************************************************)
\* models.py is imported: the built-in careers are registered, nothing is loaded yet
InitStorage ==
    /\ phase = "idle"
    /\ decl = <<>>
    /\ career = <<>>
    /\ xp_total = 0
    /\ purchases = <<>>
    /\ last = NoCall
    /\ registry = CAREERS
    /\ payload = <<>>
    /\ loaded = <<>>
    /\ lines = <<>>
    /\ idx = 0
    /\ collected = <<>>
    /\ windows = <<>>
    /\ calls = <<>>
    /\ pc = "idle"
    /\ error = "None"
    /\ invoked = <<>>
    /\ returned = <<>>
    /\ files = <<>>
    /\ history = <<>>

Load(p) ==
    /\ payload' = p
    /\ loaded' = character_from_dict(registry, p)
    /\ UNCHANGED registry
    /\ UNCHANGED <<ledgerVars, bookVars, callVars>>

\* one call per run: a second call would start from the same registry
NextStorage ==
    /\ loaded = <<>>
    /\ \E p \in Payloads : Load(p)

SpecStorage == InitStorage /\ [][NextStorage]_vars

(***************************************************************************)
(* The ledger's claims                                                     *)
(***************************************************************************)
Called == last.name # <<>>

\* the advance the last call named, when the career has it
CalledAdvance == career.advances[lower(last.name[1])]

CalledKnown == Called /\ lower(last.name[1]) \in DOMAIN career.advances

\* how many purchases in ps carry the name n, letter case aside
CountOf(ps, n) == Cardinality({i \in DOMAIN ps : lower(ps[i].name) = lower(n)})

\* C1: from an empty purchase list and xp_total >= 0, after any sequence of
\* purchase_advance calls xp_spent is the sum of the recorded costs and never exceeds
\* xp_total; a call whose advance costs more than xp_available raises PrerequisiteError
\* and leaves the purchase list as it was.
C1_XpLedger ==
    phase = "ready" =>
        /\ xp_spent(purchases) = SumCost(purchases)
        /\ xp_spent(purchases) <= xp_total
        /\ (CalledKnown /\ CalledAdvance.xp_cost > last.total - SumCost(last.pre))
              => (last.exc = "PrerequisiteError" /\ purchases = last.pre)

\* C1's case: with something bought already, a call failed for lack of XP alone
C1_Witness ==
    /\ CalledKnown
    /\ last.pre # <<>>
    /\ ~has_advance(last.pre, last.name[1])
    /\ missing_prerequisites(CalledAdvance, PurchaseNames(last.pre)) = <<>>
    /\ CalledAdvance.xp_cost > last.total - SumCost(last.pre)
    /\ last.exc = "PrerequisiteError"

\* every purchase of ps is preceded by purchases of all its advance's prerequisites
PrerequisitesPrecede(c, ps) ==
    \A i \in DOMAIN ps :
        LET adv == c.advances[lower(ps[i].name)]
        IN  \A k \in DOMAIN adv.prerequisites :
                \E j \in 1 .. (i - 1) : lower(ps[j].name) = lower(adv.prerequisites[k])

\* C2: every purchase in the list is preceded by purchases of all prerequisites of its
\* advance, names compared case-insensitively; a call for an advance with a
\* prerequisite not yet purchased raises PrerequisiteError and appends nothing.
C2_PrerequisitesFirst ==
    phase = "ready" =>
        /\ PrerequisitesPrecede(career, purchases)
        /\ (CalledKnown /\ \E k \in DOMAIN CalledAdvance.prerequisites :
                              CountOf(last.pre, CalledAdvance.prerequisites[k]) = 0)
              => (last.exc = "PrerequisiteError" /\ purchases = last.pre)

\* C2's case: a prerequisite written in another letter case counted as owned, the other
\* one was missing, and an advance with such prerequisites was bought
C2_Witness ==
    /\ decl = ScoutDecl
    /\ CalledKnown
    /\ last.name[1].base = "Stalker"
    /\ Len(last.pre) = 1
    /\ last.exc = "PrerequisiteError"
    /\ last.names = <<[base |-> "Ambush", cs |-> "lower"]>>

\* C3 (as the spec and tests/test_models.py state it): an advance declared with
\* max_purchases = m can be declared and bought m times when XP and prerequisites
\* allow, the next purchase raises PrerequisiteError, and no more than m persist.
C3_RepeatLimit ==
    \A i \in DOMAIN decl.advances :
        "max_purchases" \in DOMAIN decl.advances[i] =>
            LET d == decl.advances[i]
            IN  /\ phase # "crashed"
                /\ phase = "ready" =>
                    /\ CountOf(purchases, d.name) <= d.max_purchases
                    /\ (Called /\ lower(last.name[1]) = lower(d.name)) =>
                          IF CountOf(last.pre, d.name) >= d.max_purchases
                          THEN last.exc = "PrerequisiteError"
                          ELSE (d.xp_cost <= last.total - SumCost(last.pre))
                                  => last.exc = "None"

PayloadCareer == registry[lower(payload.career)]

\* the call got as far as the purchase records, and each has a page
PurchasesReached ==
    /\ loaded # <<>>
    /\ lower(payload.career) \in DOMAIN registry
    /\ \A i \in DOMAIN payload.purchases : payload.purchases[i].page # <<>>

AllNamesKnown ==
    \A i \in DOMAIN payload.purchases :
        lower(payload.purchases[i].name) \in DOMAIN PayloadCareer.advances

\* record i breaks the career's rules when replayed after records 1 .. i-1: a
\* prerequisite is not among them, or the advance is among them already
InvalidAt(c, data, i) ==
    LET adv == c.advances[lower(data[i].name)]
    IN  \/ \E k \in DOMAIN adv.prerequisites :
              \A j \in 1 .. (i - 1) : lower(data[j].name) # lower(adv.prerequisites[k])
        \/ \E j \in 1 .. (i - 1) : lower(data[j].name) = lower(data[i].name)

\* the XP the career charges for the advances the payload lists
ListedCost ==
    LET data == payload.purchases
        cost[i \in 0 .. Len(data)] ==
            IF i = 0 THEN 0
            ELSE cost[i - 1] + PayloadCareer.advances[lower(data[i].name)].xp_cost
    IN  cost[Len(data)]

PayloadXp == IF payload.xp_total = <<>> THEN 0 ELSE payload.xp_total[1]

\* C5 (as the spec and tests/test_models.py state it): character_from_dict accepts a
\* payload only when every purchase, replayed in list order, has its prerequisites
\* among the earlier ones and is within its repeat limit; otherwise it raises
\* ValueError naming the advance of the first invalid purchase. Stated for the
\* payloads whose only possible defect is one of these: the career and every advance
\* are known, every record has a page, and xp_total covers the listed advances.
C5_LoadRevalidates ==
    (PurchasesReached /\ AllNamesKnown /\ ListedCost <= PayloadXp) =>
        LET data == payload.purchases
            bad == {i \in DOMAIN data : InvalidAt(PayloadCareer, data, i)}
        IN  bad # {} =>
                LET first == CHOOSE i \in bad : \A j \in bad : i <= j
                IN  /\ loaded.exc = "ValueError"
                    /\ \E k \in DOMAIN loaded.names :
                          lower(loaded.names[k]) = lower(data[first].name)

\* C6 (as the spec states it): a failure of character_from_dict caused by a purchase
\* record is a ValueError whose message carries the name of an advance of the
\* payload; no KeyError or PrerequisiteError escapes. The names are asked of the
\* failures raised inside the loop over the records; the overspend check after the
\* loop (storage.py:45-48) names no advance at all.
C6_SingleValueError ==
    (PurchasesReached /\ loaded.exc # "None") =>
        /\ loaded.exc = "ValueError"
        /\ (AllNamesKnown /\ ListedCost > PayloadXp)
           \/ \E k \in DOMAIN loaded.names, i \in DOMAIN payload.purchases :
                 lower(loaded.names[k]) = lower(payload.purchases[i].name)

(***************************************************************************)
(* Book text (ttrpgtools/parsers.py, ttrpgtools/book_import.py)            *)
(*                                                                         *)
(* A line is its sequence of whitespace-separated words (str.split()), so  *)
(* a blank line is <<>> and lines carry no leading or trailing blanks.     *)
(* The word "EMDASH" stands for the one-character word U+2014, the dash    *)
(* the tables print for "no prerequisite".  What the code asks of the      *)
(* characters of a word is membership of the word in a set: the records    *)
(* below hold these sets, and each field lists the words of Words for      *)
(* which the Python expression in the comment above it is true.  No word   *)
(* of Words holds a comma, a semicolon or a quote mark; a colon or a       *)
(* period, where a word has one, is its last character.                    *)
(***************************************************************************)

\* the words of the model's book lines
Words ==
    {"---", "1", "1-1:", "100", "12", "15", "2", "2-2:", "2-3:", "2-4", "200", "250",
    "30", "5-3", "500", "750", "ADVANCES", "Adept", "Advance", "Advances", "Ag",
    "Ambidextrous", "Awareness", "Characteristic", "Cost", "Divination", "Fel",
    "Intermediate", "NAME", "Name", "Prerequisites", "Prerequisites:", "Result", "Roll",
    "Run", "S", "Simple", "Some", "Sprint", "Strength", "TABLE", "TALENT", "TELEPATHY",
    "TERRIFY", "Table", "Talent", "Threshold:", "Trust", "Type", "Use.", "faster.",
    "much", "n/a", "no", "one.", "text.", "threshold:", "EMDASH"}

\* what parse_talent_table, parse_advances_table and
\* parse_characteristic_advances_table ask of a word w
TableWords ==
    [\* w.lower().startswith("table")
     LowerStartsTable |->
         {"TABLE", "Table"},
     \* w.lower() == "talent"
     LowerIsTalent |->
         {"TALENT", "Talent"},
     \* w.lower().startswith("name")
     LowerStartsName |->
         {"NAME", "Name"},
     \* w.lower() == "advance"
     LowerIsAdvance |->
         {"Advance"},
     \* w.lower() == "cost"
     LowerIsCost |->
         {"Cost"},
     \* w.lower().startswith("type")
     LowerStartsType |->
         {"Type"},
     \* w.lower().startswith("characteristic")
     LowerStartsCharacteristic |->
         {"Characteristic"},
     \* w == "Characteristic"
     IsCharacteristic |->
         {"Characteristic"},
     \* w.startswith("---")
     StartsDashes |->
         {"---"},
     \* w matches [0-9][0-9,]*
     CostToken |->
         {"1", "100", "12", "15", "2", "200", "250", "30", "500", "750"},
     \* int(w.replace(",", "")) succeeds
     IntLiteral |->
         {"1", "100", "12", "15", "2", "200", "250", "30", "500", "750"}]

\* what _score_talent_split and _split_talent_row ask of a word w
ScoreWords ==
    [\* w.isdigit()
     IsDigit |->
         {"1", "100", "12", "15", "2", "200", "250", "30", "500", "750"},
     \* any(c.isdigit() for c in w)
     HasDigit |->
         {"1", "1-1:", "100", "12", "15", "2", "2-2:", "2-3:", "2-4", "200", "250",
         "30", "5-3", "500", "750"},
     \* U+2014 in w or "-" in w
     HasDash |->
         {"---", "1-1:", "2-2:", "2-3:", "2-4", "5-3", "EMDASH"},
     \* w == U+2014
     IsEmDash |->
         {"EMDASH"},
     \* some keyword of the list at lines 227-255 is in w.lower()
     HasKeyword |->
         {"Fel", "Intermediate", "Prerequisites", "Prerequisites:", "Sprint",
         "Strength", "TALENT", "Talent"},
     \* "(" in w
     HasOpenParen |->
         {},
     \* ")" in w
     HasCloseParen |->
         {},
     \* w.startswith("(")
     StartsParen |->
         {},
     \* w.endswith(".")
     EndsPeriod |->
         {"Use.", "faster.", "one.", "text."},
     \* w without quote marks, lowered, is in the verb set at line 271
     BenefitVerb |->
         {},
     \* w[0].isupper()
     FirstUpper |->
         {"ADVANCES", "Adept", "Advance", "Advances", "Ag", "Ambidextrous", "Awareness",
         "Characteristic", "Cost", "Divination", "Fel", "Intermediate", "NAME", "Name",
         "Prerequisites", "Prerequisites:", "Result", "Roll", "Run", "S", "Simple",
         "Some", "Sprint", "Strength", "TABLE", "TALENT", "TELEPATHY", "TERRIFY",
         "Table", "Talent", "Threshold:", "Trust", "Type", "Use."},
     \* w.lower() is in the suffix set at line 214
     NameSuffix |->
         {},
     \* a digit or U+2014 is in w, or "talent", "training" or "skill" in w.lower()
     PrereqMark |->
         {"1", "1-1:", "100", "12", "15", "2", "2-2:", "2-3:", "2-4", "200", "250",
         "30", "5-3", "500", "750", "TALENT", "Talent", "EMDASH"}]

\* what parse_divination_table and _build_divination_entry ask of a word w
DivinationWords ==
    [\* w matches \d{1,2}(?:[U+2013-]\d{1,2})?
     RollToken |->
         {"1", "12", "15", "2", "2-4", "30", "5-3"},
     \* w.lower().startswith("roll")
     LowerStartsRoll |->
         {"Roll"},
     \* "." in w
     HasPeriod |->
         {"Use.", "faster.", "one.", "text."}]

\* what parse_talent_prose and parse_psychic_powers ask of a word w
ProseWords ==
    [\* any(c.islower() for c in w)
     HasLowerCase |->
         {"Adept", "Advance", "Advances", "Ag", "Ambidextrous", "Awareness",
         "Characteristic", "Cost", "Divination", "Fel", "Intermediate", "Name",
         "Prerequisites", "Prerequisites:", "Result", "Roll", "Run", "Simple", "Some",
         "Sprint", "Strength", "Table", "Talent", "Threshold:", "Trust", "Type", "Use.",
         "faster.", "much", "n/a", "no", "one.", "text.", "threshold:"},
     \* any(c.isupper() for c in w)
     HasUpperCase |->
         {"ADVANCES", "Adept", "Advance", "Advances", "Ag", "Ambidextrous", "Awareness",
         "Characteristic", "Cost", "Divination", "Fel", "Intermediate", "NAME", "Name",
         "Prerequisites", "Prerequisites:", "Result", "Roll", "Run", "S", "Simple",
         "Some", "Sprint", "Strength", "TABLE", "TALENT", "TELEPATHY", "TERRIFY",
         "Table", "Talent", "Threshold:", "Trust", "Type", "Use."},
     \* w.startswith("Prerequisites:")
     StartsPrerequisites |->
         {"Prerequisites:"},
     \* w.lower().startswith("special:")
     LowerStartsSpecial |->
         {},
     \* w.lower().startswith("groups:")
     LowerStartsGroups |->
         {},
     \* ":" in w
     HasColon |->
         {"1-1:", "2-2:", "2-3:", "Prerequisites:", "Threshold:", "threshold:"},
     \* w is "threshold:" in some letter case
     ThresholdKey |->
         {"Threshold:", "threshold:"},
     \* w.lower() == "focus"
     LowerIsFocus |->
         {},
     \* w is "time:" in some letter case
     FocusTimeKey |->
         {},
     \* w is "sustain:" in some letter case
     SustainKey |->
         {},
     \* w is "range:" in some letter case
     RangeKey |->
         {}]

\* what the start finders and the context extractors of book_import.py ask
\* of a word w
DetectorWords ==
    [\* w.lower() == "characteristic"
     LowerIsCharacteristic |->
         {"Characteristic"},
     \* w.lower() matches simple\b
     LowerSimpleWord |->
         {"Simple"},
     \* "divination" in w.lower()
     HasDivination |->
         {"Divination"},
     \* w.lower().startswith("prerequisites:")
     LowerStartsPrerequisites |->
         {"Prerequisites:"},
     \* w.lower() starts with "threshold:", "sustain:" or "range:"
     LowerStartsMetadata |->
         {"Threshold:", "threshold:"},
     \* w.lower().startswith("time:")
     LowerStartsTime |->
         {},
     \* w.lower() == "table"
     LowerIsTable |->
         {"TABLE", "Table"},
     \* w matches [\d-]+:
     TableNumber |->
         {"1-1:", "2-2:", "2-3:"},
     \* w matches [a-z-]+, letter case ignored
     CareerWord |->
         {"---", "ADVANCES", "Adept", "Advance", "Advances", "Ag", "Ambidextrous",
         "Awareness", "Characteristic", "Cost", "Divination", "Fel", "Intermediate",
         "NAME", "Name", "Prerequisites", "Result", "Roll", "Run", "S", "Simple",
         "Some", "Sprint", "Strength", "TABLE", "TALENT", "TELEPATHY", "TERRIFY",
         "Table", "Talent", "Trust", "Type", "much", "no"},
     \* w.lower().startswith("advance")
     LowerStartsAdvance |->
         {"ADVANCES", "Advance", "Advances"},
     \* w.isupper() and len(w) > 2 and w.isalpha()
     RankWord |->
         {"ADVANCES", "NAME", "TABLE", "TALENT", "TELEPATHY", "TERRIFY"},
     \* w.upper() == "ADVANCES"
     UpperIsAdvances |->
         {"ADVANCES", "Advances"}]

\* one token of _normalise_name: kept if upper-case and at most 3 long, else capitalised
normalise_token(w) ==
    CASE w = "ADVANCES" -> "Advances"
      [] w = "NAME" -> "Name"
      [] w = "TABLE" -> "Table"
      [] w = "TALENT" -> "Talent"
      [] w = "TELEPATHY" -> "Telepathy"
      [] w = "TERRIFY" -> "Terrify"
      [] w = "faster." -> "Faster."
      [] w = "much" -> "Much"
      [] w = "n/a" -> "N/a"
      [] w = "no" -> "No"
      [] w = "one." -> "One."
      [] w = "text." -> "Text."
      [] w = "threshold:" -> "Threshold:"
      [] OTHER -> w

\* w.rstrip(".")
rstrip_period(w) ==
    CASE w = "Use." -> "Use"
      [] w = "faster." -> "faster"
      [] w = "one." -> "one"
      [] w = "text." -> "text"
      [] OTHER -> w

\* int(w.replace(",", "")) of a word in IntLiteral
int_value(w) ==
    CASE w = "1" -> 1
      [] w = "100" -> 100
      [] w = "12" -> 12
      [] w = "15" -> 15
      [] w = "2" -> 2
      [] w = "200" -> 200
      [] w = "250" -> 250
      [] w = "30" -> 30
      [] w = "500" -> 500
      [] w = "750" -> 750

\* the <<start, end>> that _RANGE_PATTERN reads from a word in RollToken
roll_value(w) ==
    CASE w = "1" -> <<1, 1>>
      [] w = "12" -> <<12, 12>>
      [] w = "15" -> <<15, 15>>
      [] w = "2" -> <<2, 2>>
      [] w = "2-4" -> <<2, 4>>
      [] w = "30" -> <<30, 30>>
      [] w = "5-3" -> <<5, 3>>

\* w.title()
title(w) ==
    CASE w = "ADVANCES" -> "Advances"
      [] w = "NAME" -> "Name"
      [] w = "TABLE" -> "Table"
      [] w = "TALENT" -> "Talent"
      [] w = "TELEPATHY" -> "Telepathy"
      [] w = "TERRIFY" -> "Terrify"
      [] w = "faster." -> "Faster."
      [] w = "much" -> "Much"
      [] w = "n/a" -> "N/A"
      [] w = "no" -> "No"
      [] w = "one." -> "One."
      [] w = "text." -> "Text."
      [] w = "threshold:" -> "Threshold:"
      [] OTHER -> w

(***************************************************************************)
(* parsers.py: helpers                                                     *)
(***************************************************************************)
\* the outcome of a parser or of a row splitter that raised
Failed(e) == [exc |-> e, entries |-> <<>>]

\* a parser that returned entries
Parsed(entries) == [exc |-> "None", entries |-> entries]

\* line.strip() is empty
blank(line) == line = <<>>

\* str.isupper(): some cased character, and no lower-case one
isupper(line) ==
    /\ \E k \in DOMAIN line : line[k] \in ProseWords.HasUpperCase
    /\ \A k \in DOMAIN line : line[k] \notin ProseWords.HasLowerCase

\* [line for line in lines if line.strip()]
non_blank(ls) == SelectSeq(ls, LAMBDA line : ~blank(line))

\* " ".join(parts).split(): the words of the parts, in order
RECURSIVE join(_)
join(parts) == IF parts = <<>> THEN <<>> ELSE Head(parts) \o join(Tail(parts))

\* any(p(token) for token in tokens), p as a set of words
any_in(tokens, P) == \E k \in DOMAIN tokens : tokens[k] \in P

\* tokens[a:b] with Python's 0-based, end-exclusive indices (0 <= a)
slice(tokens, a, b) == SubSeq(tokens, a + 1, IF b > Len(tokens) THEN Len(tokens) ELSE b)

min(a, b) == IF a < b THEN a ELSE b

max(a, b) == IF a > b THEN a ELSE b

set_min(S) == CHOOSE x \in S : \A y \in S : x <= y

set_max(S) == CHOOSE x \in S : \A y \in S : x >= y

_normalise_name(name_lines) ==
    LET tokens == join(non_blank(name_lines))
    IN  [k \in DOMAIN tokens |-> normalise_token(tokens[k])]

\* [item.strip().rstrip(".") for item in re.split(r",|;", text) if item.strip()
\*  and item.strip() != U+2014]: without separators in the words there is one item
prerequisite_items(prereq_tokens) ==
    IF prereq_tokens = <<>> \/ prereq_tokens = <<"EMDASH">>
    THEN <<>>
    ELSE <<[k \in DOMAIN prereq_tokens |->
              IF k = Len(prereq_tokens) THEN rstrip_period(prereq_tokens[k])
              ELSE prereq_tokens[k]]>>

_tokenize_table_row(row) ==
    IF row = <<>> THEN [exc |-> "ParseError", tokens |-> <<>>]
    ELSE [exc |-> "None", tokens |-> row]

(***************************************************************************)
(* parsers.py: talent tables.  The scores are Python floats, IEEE-754       *)
(* binary64 with round-to-nearest-even.  Every score and every partial sum *)
(* is below 16 in magnitude and a multiple of 2^-54, so a double is kept   *)
(* as the integer hi * 2^29 + lo that counts its units of 2^-54, with      *)
(* 0 <= lo < 2^29 and hi negative for a negative double.                   *)
(***************************************************************************)
double(hi, lo) == [hi |-> hi, lo |-> lo]

\* the double of a number of halves: 0.0, 0.5, 1.0, 1.5, 2.0, 3.0 and their negatives
halves(n) == double(n * 2^24, 0)

\* the literal 0.3, whose double is 5404319552844595 * 2^-54
three_tenths == double(10066329, 322122547)

\* float("-inf")
MinusInfinity == double(-(2^30), 0)

\* what one unit in the last place of a double of d's magnitude is worth, in
\* units of 2^-54: 53 significant bits are kept
ulp(d) ==
    LET magnitude == IF d.hi >= 0 THEN d.hi ELSE -d.hi - 1
    IN  IF magnitude < 2^24 THEN 1
        ELSE IF magnitude < 2^25 THEN 2
        ELSE IF magnitude < 2^26 THEN 4
        ELSE IF magnitude < 2^27 THEN 8
        ELSE IF magnitude < 2^28 THEN 16
        ELSE 32

\* round-to-nearest, ties to even, of an exact result
round_to_double(d) ==
    LET step == ulp(d)
        remainder == d.lo % step
        odd == (d.lo \div step) % 2 = 1
        up == 2 * remainder > step \/ (2 * remainder = step /\ odd)
        lo == d.lo - remainder + (IF up THEN step ELSE 0)
    IN  IF lo = 2^29 THEN double(d.hi + 1, 0) ELSE double(d.hi, lo)

exact_sum(a, b) ==
    IF a.lo + b.lo >= 2^29
    THEN double(a.hi + b.hi + 1, a.lo + b.lo - 2^29)
    ELSE double(a.hi + b.hi, a.lo + b.lo)

\* a + b of two floats
float_add(a, b) == round_to_double(exact_sum(a, b))

\* n * x for an int n in 1..4 and a float x: the exact product, rounded once
RECURSIVE exact_multiple(_, _)
exact_multiple(n, x) == IF n = 1 THEN x ELSE exact_sum(exact_multiple(n - 1, x), x)

float_mul(n, x) == round_to_double(exact_multiple(n, x))

\* a > b and a < b of two floats
float_gt(a, b) == a.hi > b.hi \/ (a.hi = b.hi /\ a.lo > b.lo)

float_lt(a, b) == float_gt(b, a)

\* the statements "if cond: score += points" of a list, run in order
RECURSIVE run_statements(_, _)
run_statements(score, statements) ==
    IF score = MinusInfinity \/ statements = <<>> THEN score
    ELSE run_statements(IF Head(statements).cond
                        THEN float_add(score, Head(statements).points)
                        ELSE score,
                        Tail(statements))

_score_talent_split(name_tokens, prereq_tokens, benefit_tokens) ==
    IF name_tokens = <<>> \/ prereq_tokens = <<>> \/ benefit_tokens = <<>>
    THEN MinusInfinity
    ELSE
      LET on(cond, points) == [cond |-> cond, points |-> points]
      IN  run_statements(halves(0),
            <<on(any_in(name_tokens, ScoreWords.IsDigit), halves(-6)),
              on(Len(name_tokens) > 5, halves(-2)),
              on(name_tokens[1] \in ScoreWords.FirstUpper, halves(2)),
              on(TRUE, float_mul(min(Len(name_tokens), 4), three_tenths)),
              on(name_tokens[Len(name_tokens)] \in ScoreWords.NameSuffix, halves(-3)),
              on(any_in(prereq_tokens, ScoreWords.HasDigit), halves(4)),
              on(any_in(prereq_tokens, ScoreWords.HasDash), halves(2)),
              on(prereq_tokens = <<"EMDASH">>, halves(6)),
              on(any_in(prereq_tokens, ScoreWords.HasKeyword), halves(3)),
              on(any_in(prereq_tokens, ScoreWords.HasOpenParen)
                   /\ any_in(prereq_tokens, ScoreWords.HasCloseParen), halves(1)),
              on(Len(prereq_tokens) > 8, halves(-2)),
              on(Len(prereq_tokens) = 1 /\ prereq_tokens[1] \in ScoreWords.IsDigit, halves(-4)),
              on(Len(prereq_tokens) = 1 /\ prereq_tokens[1] \notin ScoreWords.IsEmDash,
                 halves(-2)),
              on(benefit_tokens[Len(benefit_tokens)] \in ScoreWords.EndsPeriod, halves(3)),
              on(benefit_tokens[1] \in ScoreWords.BenefitVerb, halves(2)),
              on(any_in(benefit_tokens, ScoreWords.HasDigit), halves(1)),
              on(benefit_tokens[1] \in ScoreWords.StartsParen, halves(-4))>>)

\* the cuts <<i, j>> that the loops of _split_talent_row visit: for i in
\* range(1, len(tokens) - 1), for j in range(i + 1, len(tokens)); a cut stands
\* for tokens[:i], tokens[i:j], tokens[j:]
talent_cuts(tokens) ==
    {c \in (1 .. Len(tokens) - 2) \X (2 .. Len(tokens) - 1) : c[1] < c[2]}

\* the loops visit c before d
cut_before(c, d) == c[1] < d[1] \/ (c[1] = d[1] /\ c[2] < d[2])

\* the cuts the loops visit, each with the score line 291 gives it
scored_cuts(tokens) ==
    {[cut |-> c,
      score |-> _score_talent_split(slice(tokens, 0, c[1]), slice(tokens, c[1], c[2]),
                                    slice(tokens, c[2], Len(tokens)))] :
       c \in talent_cuts(tokens)}

\* best and best_score after the two loops of _split_talent_row: best is <<>>
\* (None) or <<<<i, j>>>>.  "if score > best_score" replaces the best cut only by
\* a strictly better one, so the loops end on the first cut they visit that has
\* the highest score, and on None when no score exceeds float("-inf")
talent_cut_loop(tokens) ==
    LET scored == scored_cuts(tokens)
        replaces(q, r) ==
            \/ float_gt(q.score, r.score)
            \/ q.score = r.score /\ cut_before(q.cut, r.cut)
        state(visited) ==
            IF visited = {} THEN [best |-> <<>>, best_score |-> MinusInfinity]
            ELSE LET kept == CHOOSE r \in visited : \A q \in visited : ~replaces(q, r)
                 IN  [best |-> <<kept.cut>>, best_score |-> kept.score]
    IN  state({r \in scored : float_gt(r.score, MinusInfinity)})

_split_talent_row(row) ==
    LET tokens == _tokenize_table_row(row).tokens
        failed == [exc |-> "ParseError", name |-> <<>>, prereq |-> <<>>, benefit |-> <<>>]
        cut(i, j) ==
            IF ~any_in(slice(tokens, i, j), ScoreWords.PrereqMark) THEN failed
            ELSE [exc |-> "None",
                  name |-> slice(tokens, 0, i),
                  prereq |-> slice(tokens, i, j),
                  benefit |-> slice(tokens, j, Len(tokens))]
        chosen(found) ==
            IF found.best = <<>> \/ float_lt(found.best_score, halves(0)) THEN failed
            ELSE cut(found.best[1][1], found.best[1][2])
    IN  IF _tokenize_table_row(row).exc # "None" THEN failed
        ELSE chosen(talent_cut_loop(tokens))

\* re.match(r"talent\s+name", line.lower())
talent_header(line) ==
    Len(line) >= 2 /\ line[1] \in TableWords.LowerIsTalent /\ line[2] \in TableWords.LowerStartsName

TalentEntry(name, prerequisites, description) ==
    [type |-> "talent", name |-> name, prerequisites |-> prerequisites,
     description |-> description]

\* the loop of parse_talent_table over the non-blank lines, from the k-th on;
\* row_buffer is kept joined, as the code only ever reads " ".join(row_buffer);
\* rows lists the candidate rows that _split_talent_row has split
RECURSIVE talent_table_loop(_, _, _)
talent_table_loop(ls, k, st) ==
    IF k > Len(ls) THEN st
    ELSE
      LET line == ls[k]
          seen == [st EXCEPT !.header_found = TRUE]
          candidate_row == st.row_buffer \o line
          row(split) ==
              IF split.exc # "None"
              THEN talent_table_loop(ls, k + 1, [seen EXCEPT !.row_buffer = candidate_row])
              ELSE talent_table_loop(ls, k + 1,
                     [seen EXCEPT !.row_buffer = <<>>,
                                  !.rows = Append(@, candidate_row),
                                  !.entries = Append(@,
                                      TalentEntry(_normalise_name(<<split.name>>),
                                                  prerequisite_items(split.prereq),
                                                  split.benefit))])
      IN  IF line[1] \in TableWords.LowerStartsTable THEN talent_table_loop(ls, k + 1, st)
          ELSE IF ~st.header_found /\ talent_header(line)
          THEN talent_table_loop(ls, k + 1, seen)
          ELSE IF line[1] \in TableWords.StartsDashes THEN seen
          ELSE row(_split_talent_row(candidate_row))

parse_talent_table(text) ==
    LET outcome(st) ==
            IF st.row_buffer # <<>> THEN Failed("ParseError")
            ELSE IF ~st.header_found \/ st.entries = <<>> THEN Failed("ParseError")
            ELSE Parsed(st.entries)
    IN  outcome(talent_table_loop(non_blank(text), 1,
                  [header_found |-> FALSE, row_buffer |-> <<>>, rows |-> <<>>,
                   entries |-> <<>>]))

(***************************************************************************)
(* parsers.py: advance tables and characteristic-advance tables            *)
(***************************************************************************)
\* the 0-based index of the first token that matches [0-9][0-9,]*, <<>> if none
cost_index_of(tokens) ==
    IF any_in(tokens, TableWords.CostToken)
    THEN <<(CHOOSE k \in DOMAIN tokens :
              /\ tokens[k] \in TableWords.CostToken
              /\ \A m \in 1 .. k - 1 : tokens[m] \notin TableWords.CostToken) - 1>>
    ELSE <<>>

_split_advances_row(row) ==
    LET tokens == _tokenize_table_row(row).tokens
        failed == [exc |-> "ParseError", name |-> <<>>, cost |-> "",
                   advance_type |-> "", prerequisites |-> <<>>]
        cut(cost_index) ==
            IF cost_index = <<>> THEN failed
            ELSE IF cost_index[1] = 0 \/ cost_index[1] >= Len(tokens) - 2 THEN failed
            ELSE [exc |-> "None",
                  name |-> slice(tokens, 0, cost_index[1]),
                  cost |-> tokens[cost_index[1] + 1],
                  advance_type |-> tokens[cost_index[1] + 2],
                  prerequisites |->
                      IF slice(tokens, cost_index[1] + 2, Len(tokens)) # <<>>
                      THEN slice(tokens, cost_index[1] + 2, Len(tokens))
                      ELSE <<"EMDASH">>]
    IN  IF _tokenize_table_row(row).exc # "None" THEN failed
        ELSE cut(cost_index_of(tokens))

\* re.match(r"advance\s+cost\s+type", line.lower())
advances_header(line) ==
    /\ Len(line) >= 3
    /\ line[1] \in TableWords.LowerIsAdvance
    /\ line[2] \in TableWords.LowerIsCost
    /\ line[3] \in TableWords.LowerStartsType

AdvanceEntry(name, cost, advance_type, prerequisites) ==
    [type |-> "advance", name |-> name, cost |-> cost,
     advance_type |-> advance_type, prerequisites |-> prerequisites]

\* the loop of parse_advances_table over the non-blank lines, from the k-th on
RECURSIVE advances_table_loop(_, _, _)
advances_table_loop(ls, k, st) ==
    IF k > Len(ls) THEN st
    ELSE
      LET line == ls[k]
          seen == [st EXCEPT !.header_found = TRUE]
          row(split) ==
              IF split.exc # "None" THEN [seen EXCEPT !.exc = split.exc]
              ELSE advances_table_loop(ls, k + 1,
                     [seen EXCEPT !.entries = Append(@,
                         AdvanceEntry(_normalise_name(<<split.name>>),
                                      int_value(split.cost),
                                      split.advance_type,
                                      prerequisite_items(split.prerequisites)))])
      IN  IF line[1] \in TableWords.LowerStartsTable THEN advances_table_loop(ls, k + 1, st)
          ELSE IF ~st.header_found /\ advances_header(line)
          THEN advances_table_loop(ls, k + 1, seen)
          ELSE IF line[1] \in TableWords.StartsDashes THEN seen
          ELSE row(_split_advances_row(line))

parse_advances_table(text) ==
    LET outcome(st) ==
            IF st.exc # "None" THEN Failed(st.exc)
            ELSE IF ~st.header_found \/ st.entries = <<>> THEN Failed("ParseError")
            ELSE Parsed(st.entries)
    IN  outcome(advances_table_loop(non_blank(text), 1,
                  [exc |-> "None", header_found |-> FALSE, entries |-> <<>>]))

CharacteristicAdvanceEntry(characteristic, tier, cost) ==
    [type |-> "characteristic_advance", characteristic |-> characteristic,
     tier |-> tier, cost |-> cost]

\* a data row read with the costs taken from its first tokens
characteristic_row_leading(tokens, tiers) ==
    LET n == Len(tiers)
        costs_tokens == slice(tokens, 0, n)
        name_tokens == slice(tokens, n, Len(tokens))
        entries(name) ==
            [k \in 1 .. n |->
                CharacteristicAdvanceEntry(name, _normalise_name(<<<<tiers[k]>>>>),
                                           int_value(costs_tokens[k]))]
    IN  IF Len(tokens) < n + 1 THEN Failed("ParseError")
        ELSE IF \E k \in 1 .. n : costs_tokens[k] \notin TableWords.IntLiteral
        THEN Failed("ValueError")
        ELSE Parsed(entries(_normalise_name(<<name_tokens>>)))

\* one data row under the tiers: tokens[-len(tiers):] are the costs, and with
\* no tier at all tokens[-0:] is every token and zip() pairs nothing
characteristic_row(tokens, tiers) ==
    LET n == Len(tiers)
        costs_tokens == IF n = 0 THEN tokens ELSE slice(tokens, Len(tokens) - n, Len(tokens))
        name_tokens == IF n = 0 THEN <<>> ELSE slice(tokens, 0, Len(tokens) - n)
        entries(name) ==
            [k \in 1 .. n |->
                CharacteristicAdvanceEntry(name, _normalise_name(<<<<tiers[k]>>>>),
                                           int_value(costs_tokens[k]))]
    IN  IF Len(tokens) < n + 1 THEN Failed("ParseError")
        \* int(cost_text.replace(",", "")) is not guarded
        ELSE IF \E k \in 1 .. n : costs_tokens[k] \notin TableWords.IntLiteral
        THEN Failed("ValueError")
        ELSE Parsed(entries(_normalise_name(<<name_tokens>>)))

\* the loop of parse_characteristic_advances_table; tiers is <<>> (None) or <<tiers>>
RECURSIVE characteristic_table_loop(_, _, _)
characteristic_table_loop(ls, k, st) ==
    IF k > Len(ls) THEN st
    ELSE
      LET tokens == ls[k]
          data(row) ==
              IF row.exc # "None" THEN [st EXCEPT !.exc = row.exc]
              ELSE characteristic_table_loop(ls, k + 1,
                     [st EXCEPT !.entries = @ \o row.entries])
      IN  IF \/ tokens[1] \in TableWords.LowerStartsTable
             \/ tokens[1] \in TableWords.LowerStartsCharacteristic
          THEN characteristic_table_loop(ls, k + 1,
                 IF any_in(tokens, TableWords.IsCharacteristic)
                 THEN [st EXCEPT !.tiers = <<Tail(tokens)>>]
                 ELSE st)
          ELSE IF st.tiers = <<>> THEN [st EXCEPT !.exc = "ParseError"]
          ELSE data(characteristic_row(tokens, st.tiers[1]))

parse_characteristic_advances_table(text) ==
    LET outcome(st) ==
            IF st.exc # "None" THEN Failed(st.exc)
            ELSE IF st.entries = <<>> THEN Failed("ParseError")
            ELSE Parsed(st.entries)
    IN  outcome(characteristic_table_loop(non_blank(text), 1,
                  [exc |-> "None", tiers |-> <<>>, entries |-> <<>>]))

(***************************************************************************)
(* parsers.py: divination tables                                           *)
(***************************************************************************)
_parse_roll_range(token) ==
    IF token \in DivinationWords.RollToken
    THEN [exc |-> "None", roll |-> roll_value(token)]
    ELSE [exc |-> "ParseError", roll |-> <<>>]

\* lines[idx] with the code's 0-based index
at(ls, i) == ls[i + 1]

\* the words up to the first period of the text, without it, and the words after
\* it: text.split(".", 1) when a period ends the word that holds it
first_period(text) == CHOOSE k \in DOMAIN text :
                          /\ text[k] \in DivinationWords.HasPeriod
                          /\ \A m \in 1 .. k - 1 : text[m] \notin DivinationWords.HasPeriod

\* no word holds a quote mark, so the quoted-passage search finds nothing and
\* the text is cut at its first period
_build_divination_entry(roll, text) ==
    LET cut(k) ==
            [type |-> "divination", roll_min |-> roll[1], roll_max |-> roll[2],
             quote |-> Append(slice(text, 0, k - 1), rstrip_period(text[k])),
             effect |-> slice(text, k, Len(text))]
    IN  IF any_in(text, DivinationWords.HasPeriod) THEN cut(first_period(text))
        ELSE [type |-> "divination", roll_min |-> roll[1], roll_max |-> roll[2],
              quote |-> text, effect |-> text]

\* re.match(r"^(?P<range>\d{1,2}(?:[U+2013-]\d{1,2})?)\s+(?P<text>.+)$", line)
roll_row(line) == Len(line) >= 2 /\ line[1] \in DivinationWords.RollToken

\* the loop of parse_divination_table, from lines[i] on; current_roll is <<>>
\* (None) or <<roll>>, current_text_parts is kept joined
RECURSIVE divination_loop(_, _, _)
divination_loop(ls, i, st) ==
    IF i >= Len(ls) THEN st
    ELSE
      LET line == at(ls, i)
          flushed == IF st.current_roll # <<>>
                     THEN Append(st.entries,
                                 _build_divination_entry(st.current_roll[1],
                                                         st.current_text_parts))
                     ELSE st.entries
      IN  IF blank(line) THEN divination_loop(ls, i + 1, st)
          ELSE IF line[1] \in TableWords.LowerStartsTable
          THEN divination_loop(ls, i + 1, [st EXCEPT !.header_seen = TRUE])
          ELSE IF ~st.header_seen THEN divination_loop(ls, i + 1, st)
          ELSE IF line[1] \in DivinationWords.LowerStartsRoll THEN divination_loop(ls, i + 1, st)
          ELSE IF roll_row(line)
          THEN divination_loop(ls, i + 1,
                 [st EXCEPT !.entries = flushed,
                            !.current_roll = <<_parse_roll_range(line[1]).roll>>,
                            !.current_text_parts = Tail(line)])
          ELSE IF st.current_roll = <<>> THEN [st EXCEPT !.exc = "ParseError"]
          ELSE divination_loop(ls, i + 1,
                 [st EXCEPT !.current_text_parts = @ \o line])

parse_divination_table(text) ==
    LET outcome(exc, entries) ==
            IF exc # "None" THEN Failed(exc)
            ELSE IF entries = <<>> THEN Failed("ParseError")
            ELSE Parsed(entries)
        flush(st) ==
            outcome(st.exc,
                    IF st.current_roll # <<>>
                    THEN Append(st.entries,
                                _build_divination_entry(st.current_roll[1],
                                                        st.current_text_parts))
                    ELSE st.entries)
    IN  flush(divination_loop(text, 0,
                [exc |-> "None", header_seen |-> FALSE, current_roll |-> <<>>,
                 current_text_parts |-> <<>>, entries |-> <<>>]))

(***************************************************************************)
(* parsers.py: prose talents                                               *)
(***************************************************************************)
\* line.lower().startswith(("talent groups:", "special:"))
groups_or_special(line) ==
    \/ line[1] \in ProseWords.LowerStartsSpecial
    \/ /\ Len(line) >= 2
       /\ line[1] \in TableWords.LowerIsTalent
       /\ line[2] \in ProseWords.LowerStartsGroups

\* lines 391-402: the name may run over several upper-case lines
RECURSIVE prose_name_loop(_, _, _)
prose_name_loop(ls, i, name_lines) ==
    IF i >= Len(ls) THEN [idx |-> i, name_lines |-> name_lines]
    ELSE LET candidate == at(ls, i)
         IN  IF blank(candidate) THEN prose_name_loop(ls, i + 1, name_lines)
             ELSE IF candidate[1] \in ProseWords.StartsPrerequisites
             THEN [idx |-> i, name_lines |-> name_lines]
             ELSE IF isupper(candidate)
             THEN prose_name_loop(ls, i + 1, Append(name_lines, candidate))
             ELSE [idx |-> i, name_lines |-> name_lines]

\* lines 410-425: a prerequisites stanza that runs on until a period
RECURSIVE prose_prereq_loop(_, _, _)
prose_prereq_loop(ls, i, prereq_buffer) ==
    IF i >= Len(ls) THEN [idx |-> i, prereq_buffer |-> prereq_buffer]
    ELSE LET candidate == at(ls, i)
         IN  IF blank(candidate) THEN [idx |-> i + 1, prereq_buffer |-> prereq_buffer]
             ELSE IF \/ isupper(candidate) /\ candidate[1] \notin ProseWords.StartsPrerequisites
                     \/ groups_or_special(candidate)
                     \/ any_in(candidate, ProseWords.HasColon)
             THEN [idx |-> i, prereq_buffer |-> prereq_buffer]
             ELSE IF candidate[Len(candidate)] \in ScoreWords.EndsPeriod
             THEN [idx |-> i + 1, prereq_buffer |-> prereq_buffer \o candidate]
             ELSE prose_prereq_loop(ls, i + 1, prereq_buffer \o candidate)

\* lines 429-437 of parse_talent_prose: the description runs to the next
\* upper-case line
RECURSIVE prose_description_loop(_, _, _)
prose_description_loop(ls, i, description_lines) ==
    IF i >= Len(ls) THEN [idx |-> i, description |-> description_lines]
    ELSE LET candidate == at(ls, i)
         IN  IF blank(candidate) THEN prose_description_loop(ls, i + 1, description_lines)
             ELSE IF isupper(candidate)
             THEN [idx |-> i, description |-> description_lines]
             ELSE prose_description_loop(ls, i + 1, description_lines \o candidate)

\* the outer loop of parse_talent_prose, from lines[i] on
RECURSIVE talent_prose_loop(_, _, _)
talent_prose_loop(ls, i, st) ==
    IF i >= Len(ls) THEN st
    ELSE IF blank(at(ls, i)) THEN talent_prose_loop(ls, i + 1, st)
    ELSE IF ~isupper(at(ls, i)) THEN [st EXCEPT !.exc = "ParseError"]
    ELSE
      LET has_prereq(j) ==
              /\ j < Len(ls)
              /\ ~blank(at(ls, j))
              /\ at(ls, j)[1] \in ProseWords.StartsPrerequisites
          ends_period(prereq_buffer) ==
              /\ prereq_buffer # <<>>
              /\ prereq_buffer[Len(prereq_buffer)] \in ScoreWords.EndsPeriod
          prerequisites(j) ==
              IF ~has_prereq(j) THEN [idx |-> j, prereq_buffer |-> <<>>]
              ELSE IF ends_period(Tail(at(ls, j)))
              THEN [idx |-> j + 1, prereq_buffer |-> Tail(at(ls, j))]
              ELSE prose_prereq_loop(ls, j + 1, Tail(at(ls, j)))
          entry(name_lines, prereq_buffer, described) ==
              talent_prose_loop(ls, described.idx,
                [st EXCEPT !.entries = Append(@,
                    TalentEntry(_normalise_name(name_lines),
                                prerequisite_items(prereq_buffer),
                                described.description))])
          description(name_lines, stanza) ==
              entry(name_lines, stanza.prereq_buffer,
                    prose_description_loop(ls, stanza.idx, <<>>))
          name(named) == description(named.name_lines, prerequisites(named.idx))
      IN  name(prose_name_loop(ls, i + 1, <<at(ls, i)>>))

parse_talent_prose(text) ==
    LET outcome(st) ==
            IF st.exc # "None" THEN Failed(st.exc)
            ELSE IF st.entries = <<>> THEN Failed("ParseError")
            ELSE Parsed(st.entries)
    IN  outcome(talent_prose_loop(text, 0, [exc |-> "None", entries |-> <<>>]))

(***************************************************************************)
(* parsers.py: psychic powers                                              *)
(***************************************************************************)
\* lines 632-641: the name may run over several upper-case lines
RECURSIVE psychic_name_loop(_, _, _)
psychic_name_loop(ls, i, name_lines) ==
    IF i >= Len(ls) THEN [idx |-> i, name_lines |-> name_lines]
    ELSE LET candidate == at(ls, i)
         IN  IF blank(candidate) THEN psychic_name_loop(ls, i + 1, name_lines)
             ELSE IF isupper(candidate)
             THEN psychic_name_loop(ls, i + 1, Append(name_lines, candidate))
             ELSE [idx |-> i, name_lines |-> name_lines]

\* key.strip().lower() of candidate.split(":", 1) when it is one of the four
\* recognised keys, "" otherwise
metadata_key(candidate) ==
    IF candidate[1] \in ProseWords.ThresholdKey THEN "threshold"
    ELSE IF candidate[1] \in ProseWords.SustainKey THEN "sustain"
    ELSE IF candidate[1] \in ProseWords.RangeKey THEN "range"
    ELSE IF /\ Len(candidate) >= 2
            /\ candidate[1] \in ProseWords.LowerIsFocus
            /\ candidate[2] \in ProseWords.FocusTimeKey
    THEN "focus time"
    ELSE ""

\* value.strip() of candidate.split(":", 1) for a recognised key
metadata_value(candidate) ==
    IF /\ Len(candidate) >= 2
       /\ candidate[1] \in ProseWords.LowerIsFocus
       /\ candidate[2] \in ProseWords.FocusTimeKey
    THEN Tail(Tail(candidate))
    ELSE Tail(candidate)

\* lines 646-662: metadata lines fill fields (a later line of the same key
\* overwrites an earlier one), every other line is description
RECURSIVE psychic_fields_loop(_, _, _)
psychic_fields_loop(ls, i, st) ==
    IF i >= Len(ls) THEN [st EXCEPT !.idx = i]
    ELSE LET candidate == at(ls, i)
             line(key_lower) ==
                 IF any_in(candidate, ProseWords.HasColon) /\ key_lower # ""
                 THEN psychic_fields_loop(ls, i + 1,
                        [st EXCEPT !.fields =
                            [key \in DOMAIN @ \cup {key_lower} |->
                                IF key = key_lower THEN metadata_value(candidate)
                                ELSE @[key]]])
                 ELSE psychic_fields_loop(ls, i + 1,
                        [st EXCEPT !.description_lines = @ \o candidate])
         IN  IF blank(candidate) THEN psychic_fields_loop(ls, i + 1, st)
             ELSE IF isupper(candidate) THEN [st EXCEPT !.idx = i]
             ELSE line(metadata_key(candidate))

\* fields.get(key, "")
field_or_empty(fields, key) == IF key \in DOMAIN fields THEN fields[key] ELSE <<>>

PsychicPowerEntry(name, threshold, fields, description) ==
    [type |-> "psychic_power", name |-> name, threshold |-> threshold,
     focus_time |-> field_or_empty(fields, "focus time"),
     sustain |-> field_or_empty(fields, "sustain"),
     range |-> field_or_empty(fields, "range"),
     description |-> description]

\* the outer loop reading a threshold that is no integer as 0
RECURSIVE psychic_powers_loop_lax(_, _, _)
psychic_powers_loop_lax(ls, i, st) ==
    IF i >= Len(ls) THEN st
    ELSE IF blank(at(ls, i)) THEN psychic_powers_loop_lax(ls, i + 1, st)
    ELSE IF ~isupper(at(ls, i)) THEN [st EXCEPT !.exc = "ParseError"]
    ELSE
      LET \* int(fields["threshold"].split()[0]): KeyError, IndexError and
          \* ValueError all become ParseError
          threshold_ok(fields) ==
              /\ "threshold" \in DOMAIN fields
          entry(name_lines, block) ==
              IF ~threshold_ok(block.fields)
              THEN [st EXCEPT !.exc = "ParseError",
                              !.named = <<_normalise_name(name_lines)>>]
              ELSE psychic_powers_loop_lax(ls, block.idx,
                     [st EXCEPT !.entries = Append(@,
                         PsychicPowerEntry(_normalise_name(name_lines),
                                           IF /\ block.fields["threshold"] # <<>>
                                              /\ block.fields["threshold"][1] \in TableWords.IntLiteral
                                           THEN int_value(block.fields["threshold"][1])
                                           ELSE 0,
                                           block.fields,
                                           block.description_lines))])
          name(named) ==
              entry(named.name_lines,
                    psychic_fields_loop(ls, named.idx,
                        [idx |-> named.idx, fields |-> <<>>, description_lines |-> <<>>]))
      IN  name(psychic_name_loop(ls, i + 1, <<at(ls, i)>>))

\* the outer loop of parse_psychic_powers, from lines[i] on; named is <<>> or
\* <<name>>, the power that the message of the ParseError names
RECURSIVE psychic_powers_loop(_, _, _)
psychic_powers_loop(ls, i, st) ==
    IF i >= Len(ls) THEN st
    ELSE IF blank(at(ls, i)) THEN psychic_powers_loop(ls, i + 1, st)
    ELSE IF ~isupper(at(ls, i)) THEN [st EXCEPT !.exc = "ParseError"]
    ELSE
      LET \* int(fields["threshold"].split()[0]): KeyError, IndexError and
          \* ValueError all become ParseError
          threshold_ok(fields) ==
              /\ "threshold" \in DOMAIN fields
              /\ fields["threshold"] # <<>>
              /\ fields["threshold"][1] \in TableWords.IntLiteral
          entry(name_lines, block) ==
              IF ~threshold_ok(block.fields)
              THEN [st EXCEPT !.exc = "ParseError",
                              !.named = <<_normalise_name(name_lines)>>]
              ELSE psychic_powers_loop(ls, block.idx,
                     [st EXCEPT !.entries = Append(@,
                         PsychicPowerEntry(_normalise_name(name_lines),
                                           int_value(block.fields["threshold"][1]),
                                           block.fields,
                                           block.description_lines))])
          name(named) ==
              entry(named.name_lines,
                    psychic_fields_loop(ls, named.idx,
                        [idx |-> named.idx, fields |-> <<>>, description_lines |-> <<>>]))
      IN  name(psychic_name_loop(ls, i + 1, <<at(ls, i)>>))

parse_psychic_powers(text) ==
    LET outcome(st) ==
            IF st.exc # "None" THEN Failed(st.exc)
            ELSE IF st.entries = <<>> THEN Failed("ParseError")
            ELSE Parsed(st.entries)
    IN  outcome(psychic_powers_loop(text, 0,
                  [exc |-> "None", named |-> <<>>, entries |-> <<>>]))

(***************************************************************************)
(* Every parser takes (text, *, page=None, source=None): a call with any   *)
(* other keyword raises TypeError before the parser body runs.             *)
(***************************************************************************)
ParserKeywords == {"page", "source"}

parse(parser, text) ==
    CASE parser = "parse_talent_table" -> parse_talent_table(text)
      [] parser = "parse_talent_prose" -> parse_talent_prose(text)
      [] parser = "parse_advances_table" -> parse_advances_table(text)
      [] parser = "parse_characteristic_advances_table" ->
             parse_characteristic_advances_table(text)
      [] parser = "parse_divination_table" -> parse_divination_table(text)
      [] parser = "parse_psychic_powers" -> parse_psychic_powers(text)

\* parser(window, **kwargs), kwargs given by the set of its keywords
call_parser(parser, text, kwargs) ==
    IF ~(kwargs \subseteq ParserKeywords) THEN Failed("TypeError")
    ELSE parse(parser, text)

(***************************************************************************)
(* book_import.py: where sections start                                    *)
(* A start finder returns <<>> (None) or <<start>>; indices are 0-based.   *)
(***************************************************************************)
\* walking back to the nearest "Table ..." line above, however far
_find_previous_table_header_far(ls, i) ==
    LET above == {j \in 0 .. i - 1 :
                     ~blank(at(ls, j)) /\ at(ls, j)[1] \in TableWords.LowerStartsTable}
    IN  IF above # {} THEN set_max(above) ELSE i

\* lines 32-35: the line before, when it starts with "table"
_find_previous_table_header(ls, i) ==
    IF i > 0 /\ ~blank(at(ls, i - 1)) /\ at(ls, i - 1)[1] \in TableWords.LowerStartsTable
    THEN i - 1
    ELSE i

\* line.strip().lower().startswith(header), for the two headers the code asks for
_starts_with_header(line, header) ==
    CASE header = "talent name" -> talent_header(line)
      [] header = "advance cost type" -> advances_header(line)

_talent_table_start(ls, i) ==
    IF _starts_with_header(at(ls, i), "talent name")
    THEN <<_find_previous_table_header(ls, i)>>
    ELSE <<>>

_advances_table_start(ls, i) ==
    IF _starts_with_header(at(ls, i), "advance cost type")
    THEN <<_find_previous_table_header(ls, i)>>
    ELSE <<>>

\* re.match(r"^characteristic\s+simple\b", line, re.IGNORECASE)
_characteristic_table_start(ls, i) ==
    IF /\ Len(at(ls, i)) >= 2
       /\ at(ls, i)[1] \in DetectorWords.LowerIsCharacteristic
       /\ at(ls, i)[2] \in DetectorWords.LowerSimpleWord
    THEN <<_find_previous_table_header(ls, i)>>
    ELSE <<>>

_divination_table_start(ls, i) ==
    IF /\ ~blank(at(ls, i))
       /\ at(ls, i)[1] \in TableWords.LowerStartsTable
       /\ any_in(at(ls, i), DetectorWords.HasDivination)
    THEN <<i>>
    ELSE <<>>

\* line.lower().startswith(prefix) for one of "threshold:", "focus time:",
\* "sustain:", "range:"
metadata_prefix(line) ==
    \/ line[1] \in DetectorWords.LowerStartsMetadata
    \/ /\ Len(line) >= 2
       /\ line[1] \in ProseWords.LowerIsFocus
       /\ line[2] \in DetectorWords.LowerStartsTime

\* the non-blank lines among lines[a], ..., lines[b - 1]
non_blank_in(ls, a, b) == {j \in a .. b - 1 : ~blank(at(ls, j))}

\* the look-ahead loop stops at the first non-blank line: only a
\* "prerequisites:" line there makes the heading a prose talent
_talent_prose_start(ls, i) ==
    LET ahead == non_blank_in(ls, i + 1, min(i + 6, Len(ls)))
    IN  IF blank(at(ls, i)) \/ ~isupper(at(ls, i)) THEN <<>>
        ELSE IF ahead = {} THEN <<>>
        ELSE IF at(ls, set_min(ahead))[1] \in DetectorWords.LowerStartsPrerequisites THEN <<i>>
        ELSE <<>>

\* the look-ahead loop passes lines without a colon and stops at the first
\* line with one: only a metadata line there makes the heading a power
_psychic_power_start(ls, i) ==
    LET ahead == {j \in non_blank_in(ls, i + 1, min(i + 8, Len(ls))) :
                     metadata_prefix(at(ls, j)) \/ any_in(at(ls, j), ProseWords.HasColon)}
    IN  IF blank(at(ls, i)) \/ ~isupper(at(ls, i)) THEN <<>>
        ELSE IF ahead = {} THEN <<>>
        ELSE IF metadata_prefix(at(ls, set_min(ahead))) THEN <<i>>
        ELSE <<>>

_DETECTORS ==
    <<[parser |-> "parse_talent_table", start_finder |-> "_talent_table_start",
       max_lines |-> 200],
      [parser |-> "parse_talent_prose", start_finder |-> "_talent_prose_start",
       max_lines |-> 200],
      [parser |-> "parse_advances_table", start_finder |-> "_advances_table_start",
       max_lines |-> 120],
      [parser |-> "parse_characteristic_advances_table",
       start_finder |-> "_characteristic_table_start", max_lines |-> 120],
      [parser |-> "parse_divination_table", start_finder |-> "_divination_table_start",
       max_lines |-> 120],
      [parser |-> "parse_psychic_powers", start_finder |-> "_psychic_power_start",
       max_lines |-> 200]>>

\* detector.start_finder(lines, idx)
start_finder(finder, ls, i) ==
    CASE finder = "_talent_table_start" -> _talent_table_start(ls, i)
      [] finder = "_talent_prose_start" -> _talent_prose_start(ls, i)
      [] finder = "_advances_table_start" -> _advances_table_start(ls, i)
      [] finder = "_characteristic_table_start" -> _characteristic_table_start(ls, i)
      [] finder = "_divination_table_start" -> _divination_table_start(ls, i)
      [] finder = "_psychic_power_start" -> _psychic_power_start(ls, i)

\* the first index after start where a detector other than ignore fires with a
\* start other than start; detectors are named by their place in _DETECTORS
_next_detector_index(ls, start, ignore) ==
    LET other(result) == result # <<>> /\ result[1] # start
        fires(i) ==
            \E d \in DOMAIN _DETECTORS :
                d # ignore /\ other(start_finder(_DETECTORS[d].start_finder, ls, i))
        first(hits) == IF hits = {} THEN <<>> ELSE <<set_min(hits)>>
    IN  first({i \in start + 1 .. Len(ls) - 1 : fires(i)})

(***************************************************************************)
(* book_import.py: context of a window and the probe of its end-points     *)
(***************************************************************************)
\* re.match(r"table\s+[\d-]+:\s+([a-z\s-]+?)\s+characteristic\s+advance", line,
\* re.IGNORECASE): <<>> or <<the words of group 1>>, the shortest group first
career_match(line) ==
    LET ks == {k \in 4 .. Len(line) - 1 :
                  /\ line[k] \in DetectorWords.LowerIsCharacteristic
                  /\ line[k + 1] \in DetectorWords.LowerStartsAdvance
                  /\ \A m \in 3 .. k - 1 : line[m] \in DetectorWords.CareerWord}
    IN  IF /\ Len(line) >= 5
           /\ line[1] \in DetectorWords.LowerIsTable
           /\ line[2] \in DetectorWords.TableNumber
           /\ ks # {}
        THEN <<SubSeq(line, 3, set_min(ks) - 1)>>
        ELSE <<>>

\* <<>> (None) or <<the career name, title-cased>>
_extract_career_from_table_header(ls, start) ==
    LET titled(found) == <<[k \in DOMAIN found |-> title(found[k])]>>
        first(matches) ==
            IF matches = {} THEN <<>>
            ELSE titled(career_match(at(ls, set_min(matches)))[1])
    IN  first({i \in max(0, start - 5) .. min(start + 2, Len(ls) - 1) :
                  career_match(at(ls, i)) # <<>>})

\* line.isupper() and len(line) > 2 and line.isalpha(), and the next non-blank
\* line among the four that follow is "ADVANCES"
rank_heading(ls, i) ==
    LET advances(after) ==
            /\ after # {}
            /\ Len(at(ls, set_min(after))) = 1
            /\ at(ls, set_min(after))[1] \in DetectorWords.UpperIsAdvances
    IN  /\ Len(at(ls, i)) = 1
        /\ at(ls, i)[1] \in DetectorWords.RankWord
        /\ advances(non_blank_in(ls, i + 1, min(Len(ls), i + 5)))

\* range(start - 1, max(0, start - 20), -1): the nearest heading above start,
\* line 0 never looked at; <<>> (None) or <<the rank name, title-cased>>
_extract_rank_from_context(ls, start) ==
    LET nearest(headings) ==
            IF headings = {} THEN <<>>
            ELSE <<<<title(at(ls, set_max(headings))[1])>>>>
    IN  nearest({i \in max(0, start - 20) + 1 .. start - 1 : rank_heading(ls, i)})

\* the keywords _try_parse_window passes to the parser (lines 172-195), with
\* page=None and source=None
window_kwargs(parser, ls, start) ==
    IF parser = "parse_characteristic_advances_table"
    THEN IF _extract_career_from_table_header(ls, start) # <<>> THEN {"career"} ELSE {}
    ELSE IF parser = "parse_advances_table"
    THEN (IF _extract_rank_from_context(ls, start) # <<>> THEN {"rank"} ELSE {})
         \cup
         (IF \E i \in max(0, start - 100) + 1 .. start - 1 :
                 _extract_career_from_table_header(ls, i) # <<>>
          THEN {"career"} ELSE {})
    ELSE {}

\* the loop of lines 199-205 from the end-point end on: ParseError is
\* swallowed, any other exception leaves the loop and the function
RECURSIVE probe_loop(_, _, _, _, _, _, _)
probe_loop(parser, ls, start, kwargs, end, upper_bound, st) ==
    IF end > upper_bound THEN st
    ELSE
      LET tried == [st EXCEPT !.probed = @ \cup {end}]
          window(result) ==
              IF result.exc = "ParseError"
              THEN probe_loop(parser, ls, start, kwargs, end + 1, upper_bound, tried)
              ELSE IF result.exc # "None"
              THEN [tried EXCEPT !.exc = result.exc]
              ELSE probe_loop(parser, ls, start, kwargs, end + 1, upper_bound,
                     [tried EXCEPT !.parsed = @ \cup {end},
                                   !.last_success =
                                       <<[end |-> end, entries |-> result.entries]>>])
      IN  window(call_parser(parser, slice(ls, start, end), kwargs))

\* lines 197-207 of _try_parse_window, for the keywords kwargs; probed and
\* parsed record the end-points tried and those whose window parsed
probe_windows(parser, ls, start, stop, max_lines, kwargs) ==
    probe_loop(parser, ls, start, kwargs, start + 3,
               min(min(Len(ls), stop), start + max_lines),
               [exc |-> "None", kwargs |-> kwargs, probed |-> {}, parsed |-> {},
                last_success |-> <<>>])

_try_parse_window(parser, ls, start, stop, max_lines) ==
    probe_windows(parser, ls, start, stop, max_lines, window_kwargs(parser, ls, start))

\* one pass of "for detector in _DETECTORS" at scan index i, from the d-th
\* detector on; made lists the _try_parse_window calls of the pass so far
RECURSIVE scan_detectors(_, _, _, _)
scan_detectors(ls, i, d, made) ==
    IF d > Len(_DETECTORS)
    THEN [exc |-> "None", matched |-> FALSE, calls |-> made]
    ELSE
      LET detector == _DETECTORS[d]
          call(start, stop, result) ==
              [detector |-> d, idx |-> i, start |-> start, stop |-> stop,
               kwargs |-> result.kwargs, probed |-> result.probed,
               parsed |-> result.parsed, exc |-> result.exc]
          outcome(start, result, tried) ==
              IF result.exc # "None"
              THEN [exc |-> result.exc, matched |-> FALSE, calls |-> tried]
              ELSE IF result.last_success = <<>>
              THEN scan_detectors(ls, i, d + 1, tried)
              ELSE [exc |-> "None", matched |-> TRUE, calls |-> tried,
                    window |-> [detector |-> d, start |-> start,
                                end |-> result.last_success[1].end],
                    entries |-> result.last_success[1].entries]
          try(start, stop, result) ==
              outcome(start, result, Append(made, call(start, stop, result)))
          \* "... or len(lines)"
          window(start, next) ==
              try(start, IF next = <<>> \/ next[1] = 0 THEN Len(ls) ELSE next[1],
                  _try_parse_window(detector.parser, ls, start,
                                    IF next = <<>> \/ next[1] = 0 THEN Len(ls) ELSE next[1],
                                    detector.max_lines))
          found(start) ==
              IF start = <<>> THEN scan_detectors(ls, i, d + 1, made)
              ELSE window(start[1], _next_detector_index(ls, start[1], d))
      IN  found(start_finder(detector.start_finder, ls, i))

(***************************************************************************)
(* The texts auto_parse_book is run on: every text of at most MaxLines     *)
(* lines whose lines are all of the kinds of one of the Families below;    *)
(* over a family of more than three kinds the texts are one line shorter.  *)
(***************************************************************************)
\* a text has at most MaxLines lines
MaxLines == 6

\* the kinds of line of the model's texts
LineText ==
    [
     TalHdr |-> <<"Talent", "Name">>,
     TalRow |-> <<"Ambidextrous", "Ag", "30", "Use.">>,
     Sep |-> <<"---">>,
     Table |-> <<"Table", "2-3:", "Advances">>,
     DivHdr |-> <<"Table", "1-1:", "Divination">>,
     DivRow |-> <<"1", "Trust", "no", "one.">>,
     CharHdr |-> <<"Characteristic", "Simple", "Intermediate">>,
     CharRow |-> <<"Strength", "100", "250">>,
     CharBad |-> <<"Strength", "100", "n/a">>,
     CareerTbl |-> <<"Table", "2-2:", "Adept", "Characteristic", "Advances">>,
     AdvHdr |-> <<"Advance", "Cost", "Type", "Prerequisites">>,
     AdvRow |-> <<"Awareness", "100", "S", "EMDASH">>,
     Advances |-> <<"ADVANCES">>,
     Name |-> <<"TELEPATHY">>,
     Prereq |-> <<"Prerequisites:", "Fel", "30">>,
     Thresh |-> <<"Threshold:", "12">>,
     Text |-> <<"Some", "text.">>,
     Blank |-> <<>>,
     CharOne |-> <<"Characteristic", "Simple">>,
     CharLong |-> <<"Strength", "100", "250", "500", "750">>,
     DivRange |-> <<"2-4", "Trust", "no", "one.">>,
     DivBack |-> <<"5-3", "Trust", "no", "one.">>,
     ThreshBad |-> <<"Threshold:", "n/a">>,
     ThreshNone |-> <<"Threshold:">>,
     Name2 |-> <<"TERRIFY">>,
     CharShort |-> <<"Strength", "100">>,
     TalCaps |-> <<"TALENT", "NAME">>,
     DivRoll |-> <<"Roll", "Result">>,
     AdvLead |-> <<"100", "Awareness", "200", "S", "EMDASH">>,
     TalTie |-> <<"Sprint", "Ag", "30", "Run", "much", "faster.">>,
     Thresh2 |-> <<"threshold:", "15">>,
     TableCaps |-> <<"TABLE", "2">>
    ]

Families ==
    {{"TalHdr", "TalRow", "Sep"},
     {"Table", "TalHdr", "TalRow"},
     {"AdvHdr", "AdvRow", "Sep"},
     {"Advances", "AdvHdr", "AdvRow"},
     {"DivHdr", "DivRow", "CharHdr", "CharRow"},
     {"CharHdr", "CharRow", "CharBad"},
     {"CareerTbl", "CharHdr", "CharRow"},
     {"Name", "Prereq", "Thresh", "Text"},
     {"Name", "Prereq", "Blank"},
     {"Name", "Thresh", "Blank"},
     {"TalCaps", "Thresh", "Sep"},
     {"TableCaps", "TalHdr", "Thresh"}}

\* the lines of a text given by the kinds of its lines
TextOf(kinds) == [k \in DOMAIN kinds |-> LineText[kinds[k]]]

\* the longest text over a family
LongestOver(F) == IF Cardinality(F) > 3 THEN MaxLines - 1 ELSE MaxLines

Texts ==
    UNION {{TextOf(kinds) : kinds \in SeqsUpTo(F, LongestOver(F))} : F \in Families}

(***************************************************************************)
(* auto_parse_book as a state machine: one step per iteration of its       *)
(* while loop, one call per run                                            *)
(***************************************************************************)
InitBook ==
    /\ phase = "idle"
    /\ decl = <<>>
    /\ career = <<>>
    /\ xp_total = 0
    /\ purchases = <<>>
    /\ last = NoCall
    /\ registry = <<>>
    /\ payload = <<>>
    /\ loaded = <<>>
    /\ lines = <<>>
    /\ idx = 0
    /\ collected = <<>>
    /\ windows = <<>>
    /\ calls = <<>>
    /\ pc = "idle"
    /\ error = "None"
    /\ invoked = <<>>
    /\ returned = <<>>
    /\ files = <<>>
    /\ history = <<>>

\* auto_parse_book(text): lines 213-216
Start(text) ==
    /\ lines' = text
    /\ idx' = 0
    /\ collected' = <<>>
    /\ pc' = "scan"
    /\ UNCHANGED <<windows, calls, error, ledgerVars, storageVars, callVars>>

\* one iteration of "while idx < len(lines)": lines 217-242
ScanStep ==
    /\ pc = "scan"
    /\ idx < Len(lines)
    /\ \E pass \in {scan_detectors(lines, idx, 1, <<>>)} :
           /\ calls' = calls \o pass.calls
           /\ IF pass.exc # "None"
              THEN /\ pc' = "raised"
                   /\ error' = pass.exc
                   /\ UNCHANGED <<idx, collected, windows>>
              ELSE IF pass.matched
              THEN /\ collected' = collected \o pass.entries
                   /\ idx' = pass.window.end
                   /\ windows' = Append(windows, pass.window)
                   /\ UNCHANGED <<pc, error>>
              ELSE /\ idx' = idx + 1
                   /\ UNCHANGED <<collected, windows, pc, error>>
    /\ UNCHANGED <<lines, ledgerVars, storageVars, callVars>>

\* the loop is over: lines 244-247
Finish ==
    /\ pc = "scan"
    /\ idx >= Len(lines)
    /\ IF collected = <<>>
       THEN pc' = "raised" /\ error' = "ParseError"
       ELSE pc' = "returned" /\ error' = error
    /\ UNCHANGED <<lines, idx, collected, windows, calls, ledgerVars, storageVars, callVars>>

NextBook ==
    \/ /\ pc = "idle"
       /\ \E text \in Texts : Start(text)
    \/ ScanStep
    \/ Finish

SpecBook == InitBook /\ [][NextBook]_vars

(***************************************************************************)
(* Claims about auto_parse_book (checked under SpecBook)                   *)
(***************************************************************************)
\* some window of some detector parsed during the scan
AnyWindowParsed == \E k \in DOMAIN calls : calls[k].parsed # {}

\* C7 (as the spec states it): auto_parse_book fails only when the scan found
\* nothing: once a window of some detector has parsed, the call does not
\* raise, whatever the probes of the other windows do; and the only error
\* the call raises is ParseError.
C7_PartialSuccessReturned ==
    pc = "raised" => error = "ParseError" /\ ~AnyWindowParsed

\* C8 (as the spec states it): the accepted windows [start, end) are pairwise
\* disjoint, also when a start was walked back to a "Table ..." line.
C8_WindowsDisjoint ==
    \A a, b \in DOMAIN windows :
        a # b => \/ windows[a].end <= windows[b].start
                 \/ windows[b].end <= windows[a].start

\* the number of times entry e occurs in entries
CountEntry(entries, e) == Cardinality({k \in DOMAIN entries : entries[k] = e})

\* every entry occurs in collected at least as often as in wanted
Includes(wanted) ==
    \A k \in DOMAIN wanted :
        CountEntry(collected, wanted[k]) >= CountEntry(wanted, wanted[k])

\* text is a section of detector d: given alone, some index makes the
\* detector fire with the section's first line as start, the parser accepts
\* the text, and the text is long enough for a window (three lines)
SectionOf(d, text) ==
    /\ Len(text) >= 3
    /\ \E i \in 0 .. Len(text) - 1 :
           start_finder(_DETECTORS[d].start_finder, text, i) = <<0>>
    /\ parse(_DETECTORS[d].parser, text).exc = "None"

\* the scan ran to the end of the text: no probe let an exception escape
ScanCompleted == pc = "returned" \/ (pc = "raised" /\ error = "ParseError")

\* C9 (as the spec states it): when the text is one section followed by
\* another, each a section of some detector when given alone, a scan that
\* runs to the end returns and the collected entries include the entries of
\* both sections.
C9_EverySectionFound ==
    ScanCompleted =>
        \A k \in 1 .. Len(lines) - 1 :
            \A d, e \in DOMAIN _DETECTORS :
                LET head == SubSeq(lines, 1, k)
                    rest == SubSeq(lines, k + 1, Len(lines))
                IN  SectionOf(d, head) /\ SectionOf(e, rest) =>
                        /\ pc = "returned"
                        /\ Includes(parse(_DETECTORS[d].parser, head).entries
                                      \o parse(_DETECTORS[e].parser, rest).entries)

\* C10 (as the spec states it): the inferred career and rank names are
\* advisory: every _try_parse_window call ends as the same probe does
\* without them, with the same windows parsed and the same error, if any.
C10_EnrichmentAdvisory ==
    \A k \in DOMAIN calls :
        LET call == calls[k]
            detector == _DETECTORS[call.detector]
            plain == probe_windows(detector.parser, lines, call.start, call.stop,
                                   detector.max_lines, {})
        IN  call.exc = plain.exc /\ call.parsed = plain.parsed

(***************************************************************************)
(* The parsers called directly: one call per run, on a text drawn from     *)
(* the families below                                                      *)
(***************************************************************************)
\* a text given to a parser has at most MaxRows lines
MaxRows == 5

Parsers ==
    {"parse_talent_table", "parse_talent_prose", "parse_advances_table",
     "parse_characteristic_advances_table", "parse_divination_table",
     "parse_psychic_powers"}

ParserFamilies ==
    {{"TalHdr", "TalRow", "Text", "Table"},
     {"AdvHdr", "AdvRow", "Sep"},
     {"CharOne", "CharHdr", "CharRow", "CharLong"},
     {"CareerTbl", "CharRow", "CharLong"},
     {"CharHdr", "CharRow", "CharBad", "CharShort"},
     {"DivHdr", "DivRow", "DivRange", "DivBack"},
     {"Name", "Name2", "Thresh", "ThreshBad"},
     {"Name", "Thresh", "ThreshNone", "Text"},
     {"Name", "Prereq", "Text", "Blank"},
     {"TalHdr", "TalTie"},
     {"AdvHdr", "AdvRow", "AdvLead"},
     {"DivHdr", "DivRoll", "DivRow", "Text"},
     {"Name", "Thresh", "Thresh2"}}

\* the kinds of line of every text given to a parser
ParserKinds == UNION {SeqsUpTo(F, MaxRows) : F \in ParserFamilies}

\* the package is imported: no character, no payload, no book
Imported ==
    /\ phase = "idle"
    /\ decl = <<>>
    /\ career = <<>>
    /\ xp_total = 0
    /\ purchases = <<>>
    /\ last = NoCall
    /\ registry = <<>>
    /\ payload = <<>>
    /\ loaded = <<>>
    /\ lines = <<>>
    /\ idx = 0
    /\ collected = <<>>
    /\ windows = <<>>
    /\ calls = <<>>
    /\ pc = "idle"
    /\ error = "None"

\* nothing has been called and no file is involved
InitParse ==
    /\ Imported
    /\ invoked = <<>>
    /\ returned = <<>>
    /\ files = <<>>
    /\ history = <<>>

\* parser(text)
ParseCall(parser, kinds) ==
    /\ invoked' = [op |-> parser, kinds |-> kinds, text |-> TextOf(kinds)]
    /\ returned' = parse(parser, TextOf(kinds))
    /\ UNCHANGED <<files, history, ledgerVars, storageVars, bookVars>>

\* one call per run
NextParse ==
    /\ invoked = <<>>
    /\ \E parser \in Parsers, kinds \in ParserKinds : ParseCall(parser, kinds)

SpecParse == InitParse /\ [][NextParse]_vars

(***************************************************************************)
(* Claims about the parsers (checked under SpecParse)                      *)
(***************************************************************************)
\* a parser has been called
Parsing(parser) == invoked # <<>> /\ invoked.op = parser

\* C11: every call of one of the six parsers either returns a non-empty list
\* of entries or raises ParseError, whatever the text; no other kind of
\* exception leaves the parsing layer
C11_SingleErrorKind ==
    (invoked # <<>> /\ invoked.op \in Parsers)
        => \/ returned.exc = "None" /\ returned.entries # <<>>
           \/ returned.exc = "ParseError"

(***************************************************************************)
(* library.py: the JSON library file                                       *)
(***************************************************************************)
\* at most MaxAppends calls of append_entries in a run
MaxAppends == 3
\* a batch holds at most MaxBatch entries
MaxBatch == 2

LibraryPath == "library.json"

\* the entries given to the library: dictionaries of string fields
LibraryEntries ==
    {[type |-> "talent", name |-> "Catfall"],
     [type |-> "talent", name |-> "Catfall", source |-> "Core"]}

Batches == SeqsUpTo(LibraryEntries, MaxBatch)

\* a JSON text is the sequence of its tokens; white space is not a token, and
\* the value of a member is one token whatever it is
punctuation(c) == <<"punctuation", c>>
string(s) == <<"string", s>>

\* the keys of the model's dictionaries, in the order sort_keys=True writes them
SortedKeys == <<"description", "name", "prerequisites", "source", "type">>

\* json.dumps of a dictionary of strings, sort_keys=True
dumps_dict(obj) ==
    LET keys == SelectSeq(SortedKeys, LAMBDA k : k \in DOMAIN obj)
        member[i \in 0 .. Len(keys)] ==
            IF i = 0 THEN <<>>
            ELSE member[i - 1]
                 \o (IF i > 1 THEN <<punctuation(",")>> ELSE <<>>)
                 \o <<string(keys[i]), punctuation(":"), string(obj[keys[i]])>>
    IN  <<punctuation("{")>> \o member[Len(keys)] \o <<punctuation("}")>>

\* json.dumps of a list of dictionaries
dumps(entries) ==
    LET item[i \in 0 .. Len(entries)] ==
            IF i = 0 THEN <<>>
            ELSE item[i - 1]
                 \o (IF i > 1 THEN <<punctuation(",")>> ELSE <<>>)
                 \o dumps_dict(entries[i])
    IN  <<punctuation("[")>> \o item[Len(entries)] \o <<punctuation("]")>>

\* the members of a JSON object from token i on: the dictionary read and the
\* index after its closing brace
RECURSIVE object_members(_, _, _)
object_members(text, i, obj) ==
    IF text[i] = punctuation("}") THEN [value |-> obj, next |-> i + 1]
    ELSE IF text[i] = punctuation(",") THEN object_members(text, i + 1, obj)
    ELSE object_members(text, i + 3,
           [k \in DOMAIN obj \cup {text[i][2]} |->
               IF k = text[i][2] THEN text[i + 2][2] ELSE obj[k]])

\* the items of a JSON array of objects from token i on
RECURSIVE array_items(_, _, _)
array_items(text, i, items) ==
    IF text[i] = punctuation("]") THEN items
    ELSE IF text[i] = punctuation(",") THEN array_items(text, i + 1, items)
    ELSE LET item(o) == array_items(text, o.next, Append(items, o.value))
         IN  item(object_members(text, i + 1, <<>>))

\* json.loads: the Python value of a JSON text and its type
loads(text) ==
    IF text[1] = punctuation("[")
    THEN [type |-> "list", value |-> array_items(text, 2, <<>>)]
    ELSE [type |-> "dict", value |-> object_members(text, 2, <<>>).value]

\* load_library taking whatever is not a list for an empty library
load_library_lenient(fs, path) ==
    IF path \notin DOMAIN fs THEN [exc |-> "None", value |-> <<>>]
    ELSE LET checked(data) ==
                 IF data.type # "list" THEN [exc |-> "None", value |-> <<>>]
                 ELSE [exc |-> "None", value |-> data.value]
         IN  checked(loads(fs[path]))

\* load_library(path) on the files fs: what it raises and what it returns
load_library(fs, path) ==
    IF path \notin DOMAIN fs THEN [exc |-> "None", value |-> <<>>]
    ELSE LET checked(data) ==
                 IF data.type # "list" THEN [exc |-> "ValueError", value |-> <<>>]
                 ELSE [exc |-> "None", value |-> data.value]
         IN  checked(loads(fs[path]))

\* save_library(entries, path): the files after it
save_library(fs, entries, path) ==
    [p \in DOMAIN fs \cup {path} |-> IF p = path THEN dumps(entries) ELSE fs[p]]

\* append_entries writing the new entries alone
append_entries_overwriting(fs, entries, path) ==
    LET extended(current) ==
            IF current.exc # "None"
            THEN [exc |-> current.exc, value |-> <<>>, files |-> fs]
            ELSE [exc |-> "None", value |-> current.value \o entries,
                  files |-> save_library(fs, entries, path)]
    IN  extended(load_library(fs, path))

\* append_entries(entries, path): what it raises, what it returns and the files
\* after it
append_entries(fs, entries, path) ==
    LET extended(current) ==
            IF current.exc # "None"
            THEN [exc |-> current.exc, value |-> <<>>, files |-> fs]
            ELSE [exc |-> "None", value |-> current.value \o entries,
                  files |-> save_library(fs, current.value \o entries, path)]
    IN  extended(load_library(fs, path))

\* something else may have written a file at the path before the first call
FilesBefore == {<<>>} \cup {(LibraryPath :> dumps_dict(e)) : e \in LibraryEntries}

InitLibrary ==
    /\ Imported
    /\ invoked = <<>>
    /\ returned = <<>>
    /\ files \in FilesBefore
    /\ history = [before |-> files, batches |-> <<>>]

\* append_entries(batch, path)
AppendEntries(batch) ==
    /\ Len(history.batches) < MaxAppends
    /\ \E r \in {append_entries(files, batch, LibraryPath)} :
           /\ returned' = [exc |-> r.exc, value |-> r.value]
           /\ files' = r.files
    /\ invoked' = [op |-> "append_entries", entries |-> batch]
    /\ history' = [history EXCEPT !.batches = Append(@, batch)]
    /\ UNCHANGED <<ledgerVars, storageVars, bookVars>>

\* load_library(path)
LoadLibrary ==
    /\ invoked' = [op |-> "load_library", entries |-> <<>>]
    /\ returned' = load_library(files, LibraryPath)
    /\ UNCHANGED <<files, history, ledgerVars, storageVars, bookVars>>

NextLibrary ==
    \/ \E batch \in Batches : AppendEntries(batch)
    \/ LoadLibrary

SpecLibrary == InitLibrary /\ [][NextLibrary]_vars

(***************************************************************************)
(* Claims about the library (checked under SpecLibrary)                    *)
(***************************************************************************)
\* batch_1 ++ ... ++ batch_n
RECURSIVE Concatenated(_)
Concatenated(batches) ==
    IF batches = <<>> THEN <<>>
    ELSE Head(batches) \o Concatenated(Tail(batches))

\* the path held no file before the first call
MissingAtFirst == history # <<>> /\ LibraryPath \notin DOMAIN history.before

\* the path held a JSON object before the first call
ObjectAtFirst == history # <<>> /\ LibraryPath \in DOMAIN history.before

\* C12: on a path with no file at first, after any appends load_library
\* returns the batches concatenated in call order, and the append just made
\* returned that same list, which is what the file now holds
C12_AppendsAccumulate ==
    MissingAtFirst =>
        /\ load_library(files, LibraryPath)
               = [exc |-> "None", value |-> Concatenated(history.batches)]
        /\ invoked # <<>> =>
               returned = [exc |-> "None", value |-> Concatenated(history.batches)]

\* three entries were appended in two non-empty batches and then loaded
C12_Witness ==
    /\ MissingAtFirst
    /\ Len(history.batches) = 2
    /\ \A i \in 1 .. 2 : history.batches[i] # <<>>
    /\ history.batches[1] # history.batches[2]
    /\ invoked # <<>> /\ invoked.op = "load_library"
    /\ Len(returned.value) = 3

\* C13: on a file that holds a JSON object, load_library raises ValueError,
\* append_entries raises ValueError too, and the file stays as it was
C13_MalformedLibrary ==
    (ObjectAtFirst /\ invoked # <<>>) =>
        /\ returned.exc = "ValueError"
        /\ files = history.before

\* append_entries with a non-empty batch has just failed on an object file
C13_Witness ==
    /\ ObjectAtFirst
    /\ invoked # <<>> /\ invoked.op = "append_entries" /\ invoked.entries # <<>>
    /\ returned.exc = "ValueError"
    /\ loads(files[LibraryPath]).type = "dict"

\* no line of the text is a "Talent Name ..." header
NoTalentHeader(text) == \A k \in DOMAIN text : ~talent_header(text[k])

\* the rows of the text gave no entry, or row content is left in the buffer
\* after the last line
NothingOrLeftover(st) == st.entries = <<>> \/ st.row_buffer # <<>>

DataRow(line) ==
    /\ line # <<>>
    /\ line[1] \notin TableWords.LowerStartsTable
    /\ line[1] \notin TableWords.LowerStartsCharacteristic

\* a header "Characteristic <tier1> ... <tierN>" with N >= 1, then data rows
\* only, each with a name and N integer costs
TieredTable(text) ==
    /\ Len(text) >= 2
    /\ Len(text[1]) >= 2
    /\ text[1][1] = "Characteristic"
    /\ \A r \in 2 .. Len(text) :
           /\ DataRow(text[r])
           /\ Len(text[r]) > Len(text[1]) - 1
           /\ \A k \in 1 .. Len(text[1]) - 1 :
                  text[r][Len(text[r]) - (Len(text[1]) - 1) + k] \in TableWords.IntLiteral

\* rows x N entries, row by row and in tier order within a row
ExpectedAdvances(text) ==
    LET N == Len(text[1]) - 1
        row(m) == text[((m - 1) \div N) + 2]
        k(m) == ((m - 1) % N) + 1
    IN  [m \in 1 .. (Len(text) - 1) * N |->
            [type |-> "characteristic_advance",
             characteristic |->
                 [j \in 1 .. Len(row(m)) - N |-> normalise_token(row(m)[j])],
             tier |-> <<normalise_token(text[1][k(m) + 1])>>,
             cost |-> int_value(row(m)[Len(row(m)) - N + k(m)])]]

\* C15: under a header that declares N tiers every data row gives N entries in
\* tier order, the k-th with the k-th tier and the integer value of the k-th
\* of the row's last N tokens, named by the tokens before them; the result
\* has rows x N entries
C15_RowTimesTiers ==
    (Parsing("parse_characteristic_advances_table") /\ TieredTable(invoked.text))
        => /\ returned.exc = "None"
           /\ returned.entries = ExpectedAdvances(invoked.text)

\* two tiers, a three-token row and a five-token row: four entries, the last
\* named by three tokens
C15_Witness ==
    /\ Parsing("parse_characteristic_advances_table")
    /\ invoked.kinds = <<"CharHdr", "CharRow", "CharLong">>
    /\ TieredTable(invoked.text)
    /\ Len(returned.entries) = 4
    /\ returned.entries[4].cost = 750
    /\ Len(returned.entries[4].characteristic) = 3

\* a tier header row, "Characteristic <tier1> <tier2> ..."
TierHeader(line) == line # <<>> /\ line[1] = "Characteristic"

\* some data row has no tier header row before it
DataBeforeHeader(text) ==
    \E r \in DOMAIN text :
        /\ DataRow(text[r])
        /\ \A j \in 1 .. r - 1 : ~TierHeader(text[j])

\* the first data row stands right under a tier header row and has fewer
\* tokens than that header declares tiers, plus one
ShortFirstRow(text) ==
    \E r \in 2 .. Len(text) :
        /\ TierHeader(text[r - 1])
        /\ DataRow(text[r])
        /\ Len(text[r]) < Len(text[r - 1])
        /\ \A j \in 1 .. r - 2 : ~DataRow(text[j])

\* C16: parse_characteristic_advances_table raises ParseError when a data row
\* comes before any "Characteristic <tier1> <tier2> ..." header row (a
\* "Table N: title" line is no such header), and when a data row has fewer
\* tokens than the declared tiers plus one
C16_HeaderRequired ==
    (/\ Parsing("parse_characteristic_advances_table")
     /\ DataBeforeHeader(invoked.text) \/ ShortFirstRow(invoked.text))
        => returned.exc = "ParseError"

\* C17: every entry that parse_divination_table returns has
\* roll_min <= roll_max, a single number d giving (d, d) and a range a-b
\* giving (a, b) with a <= b
C17_RollRangeOrdered ==
    (Parsing("parse_divination_table") /\ returned.exc = "None")
        => \A k \in DOMAIN returned.entries :
               returned.entries[k].roll_min <= returned.entries[k].roll_max

\* a line of a power's name: not blank and upper-case
NameLine(line) == ~blank(line) /\ isupper(line)

\* line i opens a power block: a name line that does not continue a name
PowerStart(text, i) ==
    /\ NameLine(text[i])
    /\ ~\E j \in 1 .. i - 1 :
           /\ NameLine(text[j])
           /\ \A m \in j + 1 .. i - 1 : blank(text[m])

\* the last line of the power block that line i opens
PowerEnd(text, i) ==
    IF \E j \in i + 1 .. Len(text) : PowerStart(text, j)
    THEN set_min({j \in i + 1 .. Len(text) : PowerStart(text, j)}) - 1
    ELSE Len(text)

\* the "threshold: ..." lines of the power block that line i opens
ThresholdLines(text, i) ==
    {j \in i .. PowerEnd(text, i) :
        /\ ~blank(text[j])
        /\ ~NameLine(text[j])
        /\ text[j][1] \in ProseWords.ThresholdKey}

\* the block has no threshold line, or the value of its threshold (the last
\* such line counts) does not begin with an integer
NoIntegerThreshold(text, i) ==
    \/ ThresholdLines(text, i) = {}
    \/ LET value == Tail(text[set_max(ThresholdLines(text, i))])
       IN  value = <<>> \/ value[1] \notin TableWords.IntLiteral

\* the power blocks of the text without an integer threshold
Offending(text) ==
    {i \in DOMAIN text : PowerStart(text, i) /\ NoIntegerThreshold(text, i)}

\* the name of the power whose block line i opens
PowerName(text, i) ==
    _normalise_name(SelectSeq(SubSeq(text, i, PowerEnd(text, i)), NameLine))

\* the power that the ParseError of parse_psychic_powers(text) names
NamedPower(text) ==
    psychic_powers_loop(text, 0, [exc |-> "None", named |-> <<>>, entries |-> <<>>]).named

PyNone == [py |-> "None"]
PyStr(s) == [py |-> "str", s |-> s]
PyInt(n) == [py |-> "int", n |-> n]
PyList(items) == [py |-> "list", items |-> items]
\* a dictionary is the sequence of its <<key, value>> items
PyDict(items) == [py |-> "dict", items |-> items]

\* an entry object: its class and its attributes
Object(cls, attrs) == [cls |-> cls, attrs |-> attrs]

Pages == {PyNone, PyInt(12), PyInt(321)}
Sources == {PyNone, PyStr("Core")}
Descriptions == {PyStr(""), PyStr("Some text.")}
Lists == {PyList(<<>>), PyList(<<"Ag 30">>), PyList(<<"Ag 30", "Fel 30">>)}
Dicts == {PyDict(<<>>), PyDict(<<<<"Cost", "5">>>>), PyDict(<<<<"Cost", "5">>, <<"Weight", "1kg">>>>)}

\* the entries that to_dict is called on
EntryObjects ==
    {Object("TalentEntry",
            [name |-> PyStr("Catfall"), prerequisites |-> r, description |-> t,
             page |-> p, source |-> s]) :
         r \in Lists, t \in Descriptions, p \in Pages, s \in Sources}
    \cup
    {Object("AdvanceEntry",
            [name |-> PyStr("Awareness"), cost |-> PyInt(100), advance_type |-> PyStr("S"),
             prerequisites |-> r, page |-> p, source |-> s]) :
         r \in Lists, p \in Pages, s \in Sources}
    \cup
    {Object("CharacteristicAdvanceEntry",
            [characteristic |-> PyStr("Strength"), tier |-> PyStr("Simple"),
             cost |-> PyInt(100), page |-> p, source |-> s]) :
         p \in Pages, s \in Sources}
    \cup
    {Object("DivinationResultEntry",
            [roll_min |-> PyInt(1), roll_max |-> PyInt(1), quote |-> t,
             effect |-> PyStr("Some text."), page |-> p, source |-> s]) :
         t \in Descriptions, p \in Pages, s \in Sources}
    \cup
    {Object("PsychicPowerEntry",
            [name |-> PyStr("Telepathy"), threshold |-> PyInt(12), focus_time |-> t,
             sustain |-> PyStr("No"), range |-> PyStr("10m"),
             description |-> PyStr("Some text."), page |-> p, source |-> s]) :
         t \in Descriptions, p \in Pages, s \in Sources}
    \cup
    {Object("BlockEntry",
            [kind |-> PyStr("item"), name |-> PyStr("Rope"), description |-> t,
             attributes |-> a, raw_text |-> PyStr("Rope")]) :
         t \in Descriptions, a \in Dicts}
    \cup
    {Object("RangedWeaponEntry",
            [name |-> PyStr("Laspistol"), weapon_class |-> PyStr("Pistol"),
             range |-> PyStr("30m"), rof |-> PyStr("S/-/-"), damage |-> PyStr("1d10+2"),
             penetration |-> PyStr("0"), clip |-> PyStr("30"), reload |-> PyStr("Full"),
             special |-> PyStr("Reliable"), weight |-> PyStr("1.5kg"),
             cost |-> PyStr("50"), availability |-> PyStr("Common"),
             page |-> p, source |-> s, full_description |-> f]) :
         p \in Pages, s \in Sources, f \in {PyNone, PyStr("")}}
    \cup
    {Object("MeleeWeaponEntry",
            [name |-> PyStr("Sword"), weapon_class |-> PyStr("Melee"),
             range |-> PyStr("-"), damage |-> PyStr("1d10"), penetration |-> PyStr("0"),
             special |-> PyStr("Balanced"), weight |-> PyStr("3kg"),
             cost |-> PyStr("15"), availability |-> PyStr("Common"),
             page |-> p, source |-> s, full_description |-> f]) :
         p \in Pages, s \in Sources, f \in {PyNone, PyStr("")}}
    \cup
    {Object("ArmourEntry",
            [name |-> PyStr("Flak Vest"), armour_type |-> PyStr("Flak"),
             locations |-> PyStr("Body"), ap |-> PyStr("3"), weight |-> PyStr("5kg"),
             cost |-> PyStr("50"), availability |-> PyStr("Scarce"),
             page |-> p, source |-> s, full_description |-> f]) :
         p \in Pages, s \in Sources, f \in {PyNone, PyStr("")}}

\* the key of the dictionary for each listed attribute, itself
same(attributes) == [i \in DOMAIN attributes |-> <<attributes[i], attributes[i]>>]

\* the <<key, attribute>> pairs that the class's to_dict puts after "type"
payload_keys(cls) ==
    CASE cls = "TalentEntry" ->
             same(<<"name", "prerequisites", "description", "page", "source">>)
      [] cls = "AdvanceEntry" ->
             same(<<"name", "cost", "advance_type", "prerequisites", "page", "source">>)
      [] cls = "CharacteristicAdvanceEntry" ->
             same(<<"characteristic", "tier", "cost", "page", "source">>)
      [] cls = "DivinationResultEntry" ->
             same(<<"roll_min", "roll_max", "quote", "effect", "page", "source">>)
      [] cls = "PsychicPowerEntry" ->
             same(<<"name", "threshold", "focus_time", "sustain", "range", "description",
                    "page", "source">>)
      [] cls = "BlockEntry" ->
             same(<<"name", "description", "attributes", "raw_text">>)
      [] cls = "RangedWeaponEntry" ->
             <<<<"name", "name">>, <<"class", "weapon_class">>>>
             \o same(<<"range", "rof", "damage", "penetration", "clip", "reload",
                       "special", "weight", "cost", "availability", "page", "source",
                       "full_description">>)
      [] cls = "MeleeWeaponEntry" ->
             <<<<"name", "name">>, <<"class", "weapon_class">>>>
             \o same(<<"range", "damage", "penetration", "special", "weight", "cost",
                       "availability", "page", "source", "full_description">>)
      [] cls = "ArmourEntry" ->
             same(<<"name", "armour_type", "locations", "ap", "weight", "cost",
                    "availability", "page", "source", "full_description">>)

\* the value under "type"
discriminator(obj) ==
    CASE obj.cls = "TalentEntry" -> PyStr("talent")
      [] obj.cls = "AdvanceEntry" -> PyStr("advance")
      [] obj.cls = "CharacteristicAdvanceEntry" -> PyStr("characteristic_advance")
      [] obj.cls = "DivinationResultEntry" -> PyStr("divination")
      [] obj.cls = "PsychicPowerEntry" -> PyStr("psychic_power")
      [] obj.cls = "BlockEntry" -> obj.attrs.kind
      [] obj.cls = "RangedWeaponEntry" -> PyStr("ranged_weapon")
      [] obj.cls = "MeleeWeaponEntry" -> PyStr("melee_weapon")
      [] obj.cls = "ArmourEntry" -> PyStr("armour")

\* the filter of the class's to_dict on a value of the payload
kept(cls, value) ==
    CASE cls \in {"TalentEntry", "AdvanceEntry"} -> value # PyNone /\ value # PyList(<<>>)
      [] cls = "BlockEntry" -> TRUE
      [] OTHER -> value # PyNone

\* entry.to_dict(): the dictionary as a function from its keys
to_dict(obj) ==
    LET keys == payload_keys(obj.cls)
        items == <<<<"type", discriminator(obj)>>>>
                 \o [i \in DOMAIN keys |-> <<keys[i][1], obj.attrs[keys[i][2]]>>]
        chosen == SelectSeq(items, LAMBDA item : kept(obj.cls, item[2]))
    IN  [key \in {chosen[i][1] : i \in DOMAIN chosen} |->
            chosen[CHOOSE i \in DOMAIN chosen : chosen[i][1] = key][2]]

\* entry.to_dict()
ToDict(obj) ==
    /\ invoked' = [op |-> "to_dict", entry |-> obj]
    /\ returned' = to_dict(obj)
    /\ UNCHANGED <<files, history, ledgerVars, storageVars, bookVars>>

\* one call per run
NextEntries ==
    /\ invoked = <<>>
    /\ \E obj \in EntryObjects : ToDict(obj)

SpecEntries == InitParse /\ [][NextEntries]_vars

(***************************************************************************)
(* Claims about to_dict (checked under SpecEntries)                        *)
(***************************************************************************)
\* None, an empty list or an empty dictionary
NullOrEmpty(value) ==
    \/ value = PyNone
    \/ value.py \in {"list", "dict"} /\ value.items = <<>>

\* the attribute that gives the "type" of a BlockEntry
IsDiscriminator(obj, attribute) == obj.cls = "BlockEntry" /\ attribute = "kind"

\* the key under which an attribute is serialised
KeyOf(attribute) == IF attribute = "weapon_class" THEN "class" ELSE attribute

\* C19: to_dict of an entry of any type leaves out every field that is null
\* or an empty collection, and keeps every other field under its key, with
\* the "type" discriminator
C19_CompactSerialisation ==
    (invoked # <<>> /\ invoked.op = "to_dict") =>
        /\ "type" \in DOMAIN returned
        /\ \A attribute \in DOMAIN invoked.entry.attrs :
               \/ IsDiscriminator(invoked.entry, attribute)
               \/ IF NullOrEmpty(invoked.entry.attrs[attribute])
                  THEN KeyOf(attribute) \notin DOMAIN returned
                  ELSE /\ KeyOf(attribute) \in DOMAIN returned
                       /\ returned[KeyOf(attribute)] = invoked.entry.attrs[attribute]

(***************************************************************************)
(* cli.py and storage.py: the commands that write a file                   *)
(***************************************************************************)
CharacterPath == "character.json"
DestinationPath == "saved.json"

\* character_to_dict: the JSON document of a character
character_to_dict(character) ==
    [name |-> character.name,
     career |-> character.career,
     xp_total |-> <<character.xp_total>>,
     purchases |->
         [i \in DOMAIN character.purchases |->
             [name |-> character.purchases[i].name,
              xp_cost |-> character.purchases[i].xp_cost,
              page |-> <<character.purchases[i].page>>]]]

\* save_character(character, path): the files after it; a character file is
\* held as the JSON document that json.dumps writes
save_character(fs, character, path) ==
    [p \in DOMAIN fs \cup {path} |->
        IF p = path THEN character_to_dict(character) ELSE fs[p]]

\* load_character(path): FileNotFoundError, or what character_from_dict gives
load_character(fs, path) ==
    IF path \notin DOMAIN fs
    THEN [exc |-> "FileNotFoundError", names |-> <<>>, character |-> <<>>]
    ELSE character_from_dict(CAREERS, fs[path])

\* how a command ends and the files after it
Ended(exit, fs) == [exit |-> exit, files |-> fs]

\* cmd_buy_advance writing the purchase down before it is validated
cmd_buy_advance_eager(fs, file, advance_name, page_override) ==
    LET buy(character, c) ==
            LET done(bought) ==
                    IF bought.exc = "PrerequisiteError"
                    THEN Ended("SystemExit",
                               save_character(fs,
                                   [character EXCEPT !.purchases =
                                       Append(@, [name |-> get_advance(c, advance_name).val.name,
                                                  xp_cost |-> get_advance(c, advance_name).val.xp_cost,
                                                  page |-> get_advance(c, advance_name).val.page])],
                                   file))
                    ELSE IF bought.exc # "None" THEN Ended(bought.exc, fs)
                    ELSE Ended("None",
                               save_character(fs,
                                   [character EXCEPT !.purchases = bought.purchases],
                                   file))
            IN  done(purchase_advance(c, character.xp_total, character.purchases,
                                      advance_name, page_override))
        opened(got) ==
            IF got.exc # "None" THEN Ended("SystemExit", fs)
            ELSE buy(got.character, get_career(CAREERS, got.character.career).val)
    IN  opened(load_character(fs, file))

\* cmd_buy_advance: load or exit, purchase or exit on PrerequisiteError (any
\* other exception leaves the command as it is), then save
cmd_buy_advance(fs, file, advance_name, page_override) ==
    LET buy(character, c) ==
            LET done(bought) ==
                    IF bought.exc = "PrerequisiteError" THEN Ended("SystemExit", fs)
                    ELSE IF bought.exc # "None" THEN Ended(bought.exc, fs)
                    ELSE Ended("None",
                               save_character(fs,
                                   [character EXCEPT !.purchases = bought.purchases],
                                   file))
            IN  done(purchase_advance(c, character.xp_total, character.purchases,
                                      advance_name, page_override))
        opened(got) ==
            IF got.exc # "None" THEN Ended("SystemExit", fs)
            ELSE buy(got.character, get_career(CAREERS, got.character.career).val)
    IN  opened(load_character(fs, file))

\* cmd_save with the JSON document read from stdin or from the source file
cmd_save(fs, character_data, file) ==
    LET saved(got) ==
            IF got.exc # "None" THEN Ended(got.exc, fs)
            ELSE Ended("None", save_character(fs, got.character, file))
    IN  saved(character_from_dict(CAREERS, character_data))

\* entry.to_dict() of a parsed talent, without page and source
talent_dict(e) ==
    [key \in DOMAIN e \ (IF e.prerequisites = <<>> THEN {"prerequisites"} ELSE {}) |->
        e[key]]

\* cmd_import_text with category "talents-table": parse, exit on ParseError,
\* else append the entries' dictionaries to the library
cmd_import_text(fs, text, library) ==
    LET imported(parsed) ==
            IF parsed.exc = "ParseError" THEN Ended("SystemExit", fs)
            ELSE IF parsed.exc # "None" THEN Ended(parsed.exc, fs)
            ELSE LET appended(r) == Ended(r.exc, r.files)
                 IN  appended(append_entries(fs,
                         [i \in DOMAIN parsed.entries |-> talent_dict(parsed.entries[i])],
                         library))
    IN  imported(parse_talent_table(text))

\* the characters that a character file may hold at first
CliCharacters ==
    {[name |-> "Rook", career |-> Title("Soldier"), xp_total |-> total, purchases |-> ps] :
         total \in {200, 600},
         ps \in {<<>>, <<[name |-> Title("Basic Training"), xp_cost |-> 100, page |-> 45]>>}}

\* the JSON documents given to the save command
CliPayloads ==
    [name : {"Rook"},
     career : {Title("Soldier"), Title("Nobody")},
     xp_total : {<<>>, <<200>>},
     purchases : SeqsUpTo(PayloadRecords, 1)]

\* the texts given to the import command
ImportKinds == SeqsUpTo({"TalHdr", "TalRow", "Text"}, 3)

\* the files before the command: a character file or none, a destination
\* that exists or not, a library that is missing, an array or an object
CliFiles ==
    {[p \in c \cup d \cup l |->
         IF p = CharacterPath THEN character_to_dict(character)
         ELSE IF p = DestinationPath
         THEN character_to_dict([character EXCEPT !.name = "Old"])
         ELSE stored] :
       c \in {{}, {CharacterPath}}, d \in {{}, {DestinationPath}}, l \in {{}, {LibraryPath}},
       character \in CliCharacters,
       stored \in {dumps(<<e>>) : e \in LibraryEntries}
                    \cup {dumps_dict(e) : e \in LibraryEntries}}

InitCli ==
    /\ Imported
    /\ invoked = <<>>
    /\ returned = <<>>
    /\ files \in CliFiles
    /\ history = [before |-> files, batches |-> <<>>]

\* buy-advance --file character.json --advance ... [--page ...]
BuyAdvance(advance_name, page_override) ==
    /\ invoked' = [op |-> "buy-advance", advance |-> advance_name]
    /\ \E r \in {cmd_buy_advance(files, CharacterPath, advance_name, page_override)} :
           /\ returned' = [exit |-> r.exit]
           /\ files' = r.files
    /\ UNCHANGED <<history, ledgerVars, storageVars, bookVars>>

\* save --file saved.json --stdin
Save(character_data) ==
    /\ invoked' = [op |-> "save", data |-> character_data]
    /\ \E r \in {cmd_save(files, character_data, DestinationPath)} :
           /\ returned' = [exit |-> r.exit]
           /\ files' = r.files
    /\ UNCHANGED <<history, ledgerVars, storageVars, bookVars>>

\* the import of a talent table into library.json
ImportText(kinds) ==
    /\ invoked' = [op |-> "import-text", text |-> TextOf(kinds)]
    /\ \E r \in {cmd_import_text(files, TextOf(kinds), LibraryPath)} :
           /\ returned' = [exit |-> r.exit]
           /\ files' = r.files
    /\ UNCHANGED <<history, ledgerVars, storageVars, bookVars>>

\* one command per run
NextCli ==
    /\ invoked = <<>>
    /\ \/ \E n \in AskNames(SoldierDecl), p \in PageOverrides : BuyAdvance(n, p)
       \/ \E character_data \in CliPayloads : Save(character_data)
       \/ \E kinds \in ImportKinds : ImportText(kinds)

SpecCli == InitCli /\ [][NextCli]_vars

(***************************************************************************)
(* Claims about the commands (checked under SpecCli)                       *)
(***************************************************************************)
CliCommands == {"buy-advance", "save", "import-text"}

\* a command has been run and did not end normally
CommandFailed ==
    /\ invoked # <<>>
    /\ invoked.op \in CliCommands
    /\ returned.exit # "None"

NextSectionAfter(d, start) ==
    LET hits == {i \in start + 1 .. Len(lines) - 1 :
                   \E e \in DOMAIN _DETECTORS :
                       e # d /\ start_finder(_DETECTORS[e].start_finder, lines, i) # <<>>}
    IN  IF hits = {} THEN Len(lines) ELSE set_min(hits)

\* the end-points e of the range start + 3 .. min(number of lines, stop,
\* start + max_lines) at which the parser of detector d accepts lines[start:e]
ParsingEnds(d, start, stop) ==
    {e \in start + 3 .. min(min(Len(lines), stop), start + _DETECTORS[d].max_lines) :
       parse(_DETECTORS[d].parser, slice(lines, start, e)).exc = "None"}

\* the windows accepted for detector d from start
AcceptedEnds(d, start) ==
    {windows[j].end : j \in {j \in DOMAIN windows :
                               windows[j].detector = d /\ windows[j].start = start}}

\* C21: for a detector that fires with window start s, the accepted window
\* ends at the largest end-point of s + 3 .. min(number of lines, stop,
\* s + max_lines) on which the parser succeeds, stop being the first index
\* after s at which a different detector fires; no window is accepted only
\* when the parser fails on every end-point of the range.
C21_LargestParsingWindow ==
    \A k \in DOMAIN calls :
        LET ends == ParsingEnds(calls[k].detector, calls[k].start,
                                NextSectionAfter(calls[k].detector, calls[k].start))
        IN  AcceptedEnds(calls[k].detector, calls[k].start)
              = IF ends = {} THEN {} ELSE {set_max(ends)}

\* the detectors whose start finder fires at scan index i
FiringAt(i) ==
    {d \in DOMAIN _DETECTORS : start_finder(_DETECTORS[d].start_finder, lines, i) # <<>>}

\* the k-th _try_parse_window call returned a window, which the scan accepted
Claimed(k) == calls[k].exc = "None" /\ calls[k].parsed # {}

\* C22: the first detector in registration order that fires at a scan index
\* decides the outcome there: a window is accepted at that index only for
\* that detector; when none of its windows parses the index is a false
\* alarm, and no later detector that fires there claims it.
C22_FirstDetectorDecides ==
    \A k \in DOMAIN calls :
        Claimed(k) => calls[k].detector = set_min(FiringAt(calls[k].idx))

(***************************************************************************)
(* Claims about the rows of the tables (checked under SpecParse)           *)
(***************************************************************************)
\* the rows that parse_talent_table split while parsing text
SplitRows(text) ==
    talent_table_loop(non_blank(text), 1,
                      [header_found |-> FALSE, row_buffer |-> <<>>, rows |-> <<>>,
                       entries |-> <<>>]).rows

\* the cuts of a row that no other cut outscores
TopCuts(tokens) ==
    LET top(scored) ==
            {r.cut : r \in {r \in scored : \A q \in scored : ~float_gt(q.score, r.score)}}
    IN  top(scored_cuts(tokens))

\* C23: every row that parse_talent_table accepts has exactly one cut
\* (name, prerequisite, benefit) of the highest score, so the split does not
\* depend on the order in which the cuts are tried.
C23_UniqueBestSplit ==
    (Parsing("parse_talent_table") /\ returned.exc = "None") =>
        \A k \in DOMAIN SplitRows(invoked.text) :
            Cardinality(TopCuts(SplitRows(invoked.text)[k])) = 1

\* the 0-based places of the tokens of a row that match [0-9][0-9,]*, are not
\* the first token and have at least two tokens after them
CostColumns(tokens) ==
    {i \in 1 .. Len(tokens) - 3 : tokens[i + 1] \in TableWords.CostToken}

\* the row of a one-line text, when parse_advances_table takes the line for a row
SingleRow(text) ==
    /\ Len(text) = 1
    /\ ~blank(text[1])
    /\ text[1][1] \notin TableWords.LowerStartsTable
    /\ ~advances_header(text[1])
    /\ text[1][1] \notin TableWords.StartsDashes

\* C24: in an advances row the cost column is the first token that matches
\* the digit pattern, is not the first token and has at least two tokens
\* after it; the name is what precedes it, the type the next token, the
\* prerequisites the rest; the row fails with ParseError only if no token
\* meets the three conditions.
C24_CostColumn ==
    (Parsing("parse_advances_table") /\ SingleRow(invoked.text)) =>
        LET tokens == invoked.text[1]
            columns == CostColumns(tokens)
        IN  IF columns = {} THEN returned.exc = "ParseError"
            ELSE /\ returned.exc = "None"
                 /\ returned.entries =
                      <<AdvanceEntry(_normalise_name(<<slice(tokens, 0, set_min(columns))>>),
                                     int_value(tokens[set_min(columns) + 1]),
                                     tokens[set_min(columns) + 2],
                                     prerequisite_items(
                                         slice(tokens, set_min(columns) + 2, Len(tokens))))>>

\* the places of the lines of text that start with "table"
TableLines(text) ==
    {k \in DOMAIN text : ~blank(text[k]) /\ text[k][1] \in TableWords.LowerStartsTable}

\* the roll-range rows of text after its k-th line
RollRowsAfter(text, k) == {m \in k + 1 .. Len(text) : roll_row(text[m])}

\* after the header at line k, a non-blank line that is not a roll-range row
\* comes before the first roll-range row
StrayLineAfter(text, k) ==
    \E m \in k + 1 .. Len(text) :
        /\ ~blank(text[m])
        /\ ~roll_row(text[m])
        /\ \A r \in RollRowsAfter(text, k) : m < r

\* C25: parse_divination_table takes no entry from a line before the first
\* line that starts with "table" (the result is that of the text from that
\* line on); it raises ParseError when there is no entry to return, and when
\* a non-blank line that is not a roll-range row follows the header before
\* the first roll-range row.
C25_DivinationHeaderFirst ==
    Parsing("parse_divination_table") =>
        LET text == invoked.text
            from(k) == SubSeq(text, k, Len(text))
        IN  IF TableLines(text) = {} THEN returned.exc = "ParseError"
            ELSE /\ returned = parse_divination_table(from(set_min(TableLines(text))))
                 /\ RollRowsAfter(text, set_min(TableLines(text))) = {}
                        => returned.exc = "ParseError"
                 /\ StrayLineAfter(text, set_min(TableLines(text)))
                        => returned.exc = "ParseError"

(***************************************************************************)
(* C26: repeated metadata keys in one psychic power's block                *)
(***************************************************************************)
\* the lines (1-based) that open a power block
PowerStarts(text) == {i \in 1 .. Len(text) : PowerStart(text, i)}

\* the lines of the block that starts at s which carry the recognised key
KeyLines(text, s, key) ==
    {j \in s + 1 .. Len(text) :
        /\ ~blank(text[j])
        /\ ~isupper(text[j])
        /\ any_in(text[j], ProseWords.HasColon)
        /\ metadata_key(text[j]) = key
        /\ \A t \in PowerStarts(text) : ~(s < t /\ t < j)}

\* the value of the first occurrence of key in the block, <<>> without one
FirstValue(text, s, key) ==
    IF KeyLines(text, s, key) = {} THEN <<>>
    ELSE metadata_value(text[set_min(KeyLines(text, s, key))])

\* the k-th block start in the order of the text
NthPower(text, k) ==
    CHOOSE s \in PowerStarts(text) :
        Cardinality({t \in PowerStarts(text) : t <= s}) = k

\* C26: when parse_psychic_powers returns, every entry stores, for each of the
\* four recognised keys, the value of the key's first occurrence in the
\* power's block (the threshold as the integer that value starts with)
C26_FirstOccurrenceWins ==
    (Parsing("parse_psychic_powers") /\ returned.exc = "None") =>
        /\ Len(returned.entries) = Cardinality(PowerStarts(invoked.text))
        /\ \A k \in 1 .. Len(returned.entries) :
             LET text == invoked.text
                 s == NthPower(invoked.text, k)
                 entry == returned.entries[k]
             IN  /\ FirstValue(text, s, "threshold") # <<>>
                 /\ FirstValue(text, s, "threshold")[1] \in TableWords.IntLiteral
                 /\ entry.threshold = int_value(FirstValue(text, s, "threshold")[1])
                 /\ entry.focus_time = FirstValue(text, s, "focus time")
                 /\ entry.sustain = FirstValue(text, s, "sustain")
                 /\ entry.range = FirstValue(text, s, "range")

(***************************************************************************)
(* C27: the scan of auto_parse_book terminates                             *)
(***************************************************************************)
\* the while loop can take an iteration: lines 217
Scanning == pc = "scan" /\ idx < Len(lines)

\* auto_parse_book is sequential code: once called, its while loop keeps
\* taking iterations while one is possible and the statements after the loop
\* run when it is over, so both steps are weakly fair; nothing obliges a
\* caller to call it.  The fairness of ScanStep is WF_vars(ScanStep) written
\* out, with the loop condition Scanning for ENABLED <<ScanStep>>_vars.
SpecBookFair ==
    /\ InitBook
    /\ [][NextBook]_vars
    /\ WF_vars(Finish)
    /\ ([]<>~Scanning \/ []<><<ScanStep>>_vars)

\* an iteration of the while loop that leaves the scan running
Iteration == pc = "scan" /\ pc' = "scan"

\* C27: every iteration of the scan loop strictly increases idx and keeps it
\* within the text: by one when no detector matched, to the end of the
\* accepted window on a match, a window whose start is at most one line
\* before idx; so the loop takes at most len(lines) iterations, and once
\* called auto_parse_book returns or raises
C27_ScanTerminates ==
    /\ [][Iteration =>
            /\ idx < idx'
            /\ idx' <= Len(lines)
            /\ IF windows' = windows THEN idx' = idx + 1
               ELSE /\ idx' = windows'[Len(windows')].end
                    /\ idx - 1 <= windows'[Len(windows')].start
                    /\ windows'[Len(windows')].start <= idx]_vars
    /\ (pc = "scan") ~> (pc \in {"returned", "raised"})

\* a scan that returned after it accepted a window whose start the detector
\* had moved one line back to a "Table ..." line
C27_Witness ==
    /\ pc = "returned"
    /\ \E k \in DOMAIN calls :
           /\ calls[k].parsed # {}
           /\ calls[k].exc = "None"
           /\ calls[k].start = calls[k].idx - 1

(***************************************************************************)
(* C28: accepted windows are at least three lines long                     *)
(***************************************************************************)
\* the section of detector d that starts at start has room for a window:
\* at least three lines before the end of the text and before the next index
\* at which a different detector fires
RoomForWindow(d, start) ==
    start + 3 <= min(Len(lines), NextSectionAfter(d, start))

\* C28: every accepted window has at least three lines and lies within the
\* text; the section of an accepted window starts at least three lines before
\* the end of the text and before the next index at which a different
\* detector fires; and the scan of a text of fewer than three lines (a header
\* and one data row, say) ends in ParseError.
C28_ShortSectionsSkipped ==
    /\ \A k \in DOMAIN windows :
           /\ 0 <= windows[k].start
           /\ windows[k].start + 3 <= windows[k].end
           /\ windows[k].end <= Len(lines)
           /\ RoomForWindow(windows[k].detector, windows[k].start)
    /\ (Len(lines) < 3 /\ pc \in {"returned", "raised"})
           => (pc = "raised" /\ error = "ParseError")

(***************************************************************************)
(* C29: a purchased character survives character_to_dict and back          *)
(***************************************************************************)
\* the Character of the ledger: its career is held by name, as in the document
LedgerCharacter ==
    [name |-> "Rook", career |-> career.name, xp_total |-> xp_total,
     purchases |-> purchases]

\* the registry with the character's career registered
RegisteredWith(c) == register_career(CAREERS, c)

\* C29: for the character reached from an empty purchase list by any
\* sequence of purchase_advance calls (with or without page_override) on a
\* registered career, character_from_dict(character_to_dict(c)) raises
\* nothing and gives a character with the same name, career, xp_total and
\* the same purchases (names, costs and pages, in order).
C29_RoundTrip ==
    phase = "ready" =>
        \E r \in {character_from_dict(RegisteredWith(career),
                                      character_to_dict(LedgerCharacter))} :
            /\ r.exc = "None"
            /\ r.character = LedgerCharacter

\* two purchases, one recorded with an overridden page, came back unchanged
C29_Witness ==
    /\ phase = "ready"
    /\ Len(purchases) >= 2
    /\ \E i \in DOMAIN purchases :
           purchases[i].page # career.advances[lower(purchases[i].name)].page
    /\ character_from_dict(RegisteredWith(career),
                           character_to_dict(LedgerCharacter)).character = LedgerCharacter

(***************************************************************************)
(* C30: the costs of a loaded character are the career's                   *)
(***************************************************************************)
\* the payload names a registered career
CareerFound == loaded # <<>> /\ lower(payload.career) \in DOMAIN registry

\* record i of the payload can be loaded: it has a page, its advance is one
\* of the career's, and the advance's prerequisites are named by earlier records
RecordLoads(i) ==
    /\ payload.purchases[i].page # <<>>
    /\ lower(payload.purchases[i].name) \in DOMAIN PayloadCareer.advances
    /\ LET advance == PayloadCareer.advances[lower(payload.purchases[i].name)]
       IN  \A k \in DOMAIN advance.prerequisites :
               \E j \in 1 .. i - 1 :
                   lower(payload.purchases[j].name) = lower(advance.prerequisites[k])

\* the career's current costs of the advances the payload lists, summed
RECURSIVE CareerCostSum(_)
CareerCostSum(n) ==
    IF n = 0 THEN 0
    ELSE PayloadCareer.advances[lower(payload.purchases[n].name)].xp_cost
             + CareerCostSum(n - 1)

\* payload["xp_total"], 0 when the key is absent
PayloadTotal == IF payload.xp_total = <<>> THEN 0 ELSE payload.xp_total[1]

\* the ValueError of the XP check: its message names no advance
Overspent == loaded.exc = "ValueError" /\ loaded.names = <<>>

\* the payload with every stored xp_cost replaced by cost
WithStoredCost(p, cost) ==
    [p EXCEPT !.purchases = [i \in DOMAIN @ |-> [@[i] EXCEPT !.xp_cost = cost]]]

\* C30: character_from_dict gives every loaded purchase the cost of the
\* currently registered career's advance, whatever xp_cost the payload stores
\* (the result is the same for any stored cost); xp_spent of the loaded
\* character is the sum of the career's costs of the listed advances; and the
\* XP check is made once on that sum after all records are loaded: the call
\* raises the overspend ValueError exactly when every record loads and the
\* sum exceeds xp_total.
C30_CostFromCareer ==
    CareerFound =>
        /\ loaded = character_from_dict(registry, WithStoredCost(payload, 0))
        /\ loaded.exc = "None" =>
               /\ \A i \in DOMAIN loaded.character.purchases :
                      loaded.character.purchases[i].xp_cost =
                          PayloadCareer.advances[lower(payload.purchases[i].name)].xp_cost
               /\ xp_spent(loaded.character.purchases)
                      = CareerCostSum(Len(payload.purchases))
        /\ Overspent <=>
               /\ \A i \in DOMAIN payload.purchases : RecordLoads(i)
               /\ CareerCostSum(Len(payload.purchases)) > PayloadTotal

\* a payload whose stored costs (5 each) fit xp_total was rejected because the
\* career's costs do not
C30_Witness ==
    /\ CareerFound
    /\ Len(payload.purchases) = 2
    /\ \A i \in DOMAIN payload.purchases : payload.purchases[i].xp_cost = 5
    /\ PayloadTotal = 200
    /\ Overspent

====
